---- MODULE Spec2Model ----
(***************************************************************************)
(* A model of the-drill: the ID3v2 (v2.3 / v2.4) tag decoder, the ISOBMFF  *)
(* box-tree decoder, their leaf decoders and the format dispatcher.        *)
(*                                                                         *)
(* The program is single-threaded; each part is modelled as its own state  *)
(* machine over its own variables, with one specification per part:        *)
(*   SpecUnsync    remove_unsynchronization applied once and twice         *)
(*   SpecHdr       the tkhd / mvhd / mdhd payload decoders                 *)
(*   SpecDispatch  DissectorBuilder::build_for_file and the chosen decoder *)
(*   SpecTag       the top-level ID3v2 frame loop                          *)
(*   SpecBox       IsobmffDissector::parse_boxes over a file               *)
(* Bytes are integers 0..255; a string is the sequence of its code points. *)
(***************************************************************************)
EXTENDS Integers, Sequences, FiniteSets, TLC

VARIABLES
    \* ---- remove_unsynchronization (id3v2/tools.rs)
    u_data,      \* the input byte sequence
    u_first,     \* remove_unsynchronization(u_data), once computed
    u_second,    \* remove_unsynchronization(u_first), once computed
    u_pass,      \* how many passes have run: 0, 1, 2
    \* ---- tkhd / mvhd / mdhd decoders
    h_kind,      \* which decoder: "tkhd", "mvhd", "mdhd"
    h_data,      \* the payload handed to the decoder
    h_res,       \* the decoder's outcome, [status |-> "none"] before the call
    \* ---- format dispatch (dissector_builder.rs, main.rs)
    d_file,      \* the bytes of the opened file
    d_cursor,    \* the file cursor
    d_log,       \* the seeks and reads performed on the file, in order
    d_out,       \* the lines the chosen dissector printed
    d_chosen,    \* media_type of the dissector build_for_file returned, or "none"
    d_pc,        \* "start", "built", "dissecting", "done", "err"
    \* ---- the ID3v2 tag decoder
    t_version,   \* 3 or 4: which dissector runs (Id3v23Dissector / Id3v24Dissector)
    t_show,      \* options.show_data (v2.3) / options.show_frames (v2.4)
    t_file,      \* the bytes of the file
    t_cursor,    \* the file cursor
    t_flags,     \* the tag header's flags byte
    t_tag_size,  \* the tag header's decoded size
    t_alloc,     \* the length of the buffer allocated for the tag (vec![0u8; tag_size])
    t_buffer,    \* the tag buffer
    t_pos,       \* the frame loop's pos
    t_frames,    \* the frames decoded (and displayed) so far
    t_last,      \* what the last loop iteration did
    t_pc,        \* "start", "tag", "unsync", "ext", "frames", "done", "err"
    \* ---- the ISOBMFF box-tree decoder (isobmff/dissector.rs)
    b_file,      \* the file: [head |-> bytes, pad |-> number of zero bytes after them]
    b_build,     \* "debug": integer overflow panics; "release": it wraps
    b_stack,     \* the activation records of parse_boxes, outermost first
    b_result,    \* what dissect_with_options receives from parse_boxes(file, 0, file_size, 0)
    b_count,     \* how many boxes have been accepted so far
    b_unwound,   \* the boxes vectors dropped when an error or panic unwound the calls
    b_pc,        \* "start", "run", "done"
    \* ---- decode_synchsafe_int (id3v2/tools.rs)
    s_bytes,     \* the bytes handed to decode_synchsafe_int
    s_res,       \* its result, once computed
    s_done,      \* the call has returned
    \* ---- IsobmffDissector::can_handle (isobmff/dissector.rs)
    p_header,    \* the header handed to the probe
    p_res,       \* the probe's answer, once computed
    p_done       \* the call has returned

unsyncVars == <<u_data, u_first, u_second, u_pass>>
hdrVars    == <<h_kind, h_data, h_res>>
dispVars   == <<d_file, d_cursor, d_log, d_out, d_chosen, d_pc>>
tagVars    == <<t_version, t_show, t_file, t_cursor, t_flags, t_tag_size, t_alloc, t_buffer,
                t_pos, t_frames, t_last, t_pc>>
boxVars    == <<b_file, b_build, b_stack, b_result, b_count, b_unwound, b_pc>>
synchVars  == <<s_bytes, s_res, s_done>>
probeVars  == <<p_header, p_res, p_done>>
vars       == <<unsyncVars, hdrVars, dispVars, tagVars, boxVars, synchVars, probeVars>>

(***************************************************************************)
(* Generic helpers.                                                        *)
(***************************************************************************)
Min(a, b) == IF a < b THEN a ELSE b

RECURSIVE Concat(_)
Concat(ss) == IF ss = <<>> THEN <<>> ELSE ss[1] \o Concat(Tail(ss))

\* All sequences over S of length 0..n.
SeqsUpTo(S, n) == UNION {[1..k -> S] : k \in 0..n}

\* data[from..to) with zero-based, end-exclusive indices, as Rust slices.
Slice(data, from, to) == [i \in 1..(to - from) |-> data[from + i]]

\* data[i] with a zero-based index.
At(data, i) == data[i + 1]

(***************************************************************************)
(* id3v2/tools.rs: remove_unsynchronization.                               *)
(***************************************************************************)
RECURSIVE remove_unsynchronization_from(_, _)
\* The while loop of remove_unsynchronization from index i (zero-based).
remove_unsynchronization_from(data, i) ==
    IF ~(i < Len(data)) THEN <<>>
    ELSE <<At(data, i)>> \o
         (IF At(data, i) = 255 /\ i + 1 < Len(data) /\ At(data, i + 1) = 0
          THEN remove_unsynchronization_from(data, i + 2)
          ELSE remove_unsynchronization_from(data, i + 1))

\* A decoder that forgets to skip the stuffed 0x00 (i += 1 on both branches).
remove_unsynchronization_noskip(data) == data

remove_unsynchronization(data) == remove_unsynchronization_from(data, 0)

(***************************************************************************)
(* Fixed-layout ISOBMFF header decoders.  A decoder returns Ok(value) or   *)
(* Err(message); an index past the end of the payload panics.  Integers    *)
(* wider than a byte are kept as their big-endian byte strings.            *)
(***************************************************************************)
Err(msg) == [status |-> "err", msg |-> msg]

Panic(msg) == [status |-> "panic", msg |-> msg]

\* Some index of S (zero-based) lies outside data: data[i] panics.
OutOfBounds(data, S) == \E i \in S : i >= Len(data)

\* u32 "as u64": zero-extension of a big-endian u32.
ZeroExtend(b4) == <<0, 0, 0, 0>> \o b4

\* isobmff/boxes/track_header.rs: TrackHeaderBox::parse.
TrackHeaderBox_parse(data) ==
    IF Len(data) < 4 THEN Err("tkhd box too short")
    ELSE
      LET version == At(data, 0)
          base_offset == IF version = 1 THEN 36 ELSE 24
      IN  IF version = 1 /\ Len(data) < 40 THEN Err("tkhd version 1 box too short")
          ELSE IF version # 1 /\ Len(data) < 28 THEN Err("tkhd version 0 box too short")
          ELSE IF Len(data) < base_offset + 52
               THEN Err("tkhd box too short for additional fields")
          ELSE IF OutOfBounds(data, (base_offset + 8)..(base_offset + 13)
                                    \cup (base_offset + 52)..(base_offset + 59))
               THEN Panic("index out of bounds")
          ELSE [status            |-> "ok",
                version           |-> version,
                flags             |-> <<0>> \o Slice(data, 1, 4),
                creation_time     |-> IF version = 1 THEN Slice(data, 4, 12)
                                      ELSE ZeroExtend(Slice(data, 4, 8)),
                modification_time |-> IF version = 1 THEN Slice(data, 12, 20)
                                      ELSE ZeroExtend(Slice(data, 8, 12)),
                track_id          |-> IF version = 1 THEN Slice(data, 20, 24)
                                      ELSE Slice(data, 12, 16),
                duration          |-> IF version = 1 THEN Slice(data, 28, 36)
                                      ELSE ZeroExtend(Slice(data, 20, 24)),
                layer             |-> Slice(data, base_offset + 8, base_offset + 10),
                alternate_group   |-> Slice(data, base_offset + 10, base_offset + 12),
                volume_fixed      |-> Slice(data, base_offset + 12, base_offset + 14),
                width_fixed       |-> Slice(data, base_offset + 52, base_offset + 56),
                height_fixed      |-> Slice(data, base_offset + 56, base_offset + 60)]

\* isobmff_movie_header.rs: MovieHeaderBox::parse.
MovieHeaderBox_parse(data) ==
    IF Len(data) < 4 THEN Err("mvhd box too short")
    ELSE
      LET version == At(data, 0)
          rate_offset == IF version = 1 THEN 32 ELSE 20
      IN  IF version = 1 /\ Len(data) < 36 THEN Err("mvhd version 1 box too short")
          ELSE IF version # 1 /\ Len(data) < 24 THEN Err("mvhd version 0 box too short")
          ELSE IF Len(data) < rate_offset + 8
               THEN Err("mvhd box too short for rate/volume")
          ELSE IF OutOfBounds(data, rate_offset..(rate_offset + 5))
               THEN Panic("index out of bounds")
          ELSE [status            |-> "ok",
                version           |-> version,
                creation_time     |-> IF version = 1 THEN Slice(data, 4, 12)
                                      ELSE ZeroExtend(Slice(data, 4, 8)),
                modification_time |-> IF version = 1 THEN Slice(data, 12, 20)
                                      ELSE ZeroExtend(Slice(data, 8, 12)),
                timescale         |-> IF version = 1 THEN Slice(data, 20, 24)
                                      ELSE Slice(data, 12, 16),
                duration          |-> IF version = 1 THEN Slice(data, 24, 32)
                                      ELSE ZeroExtend(Slice(data, 16, 20)),
                rate_fixed        |-> Slice(data, rate_offset, rate_offset + 4),
                volume_fixed      |-> Slice(data, rate_offset + 4, rate_offset + 6)]

\* The three 5-bit letters of an mdhd language code, each plus 0x60.
LangChars(hi, lo) ==
    LET lang_code == hi * 256 + lo
    IN  << ((lang_code \div 1024) % 32) + 96,
           ((lang_code \div 32) % 32) + 96,
           (lang_code % 32) + 96 >>

\* isobmff_media_header.rs: MediaHeaderBox::parse.
MediaHeaderBox_parse(data) ==
    IF Len(data) < 4 THEN Err("mdhd box too short")
    ELSE
      LET version == At(data, 0)
          lang_offset == IF version = 1 THEN 32 ELSE 20
      IN  IF version = 1 /\ Len(data) < 36 THEN Err("mdhd version 1 box too short")
          ELSE IF version # 1 /\ Len(data) < 24 THEN Err("mdhd version 0 box too short")
          ELSE IF Len(data) < lang_offset + 2
               THEN Err("mdhd box too short for language")
          ELSE IF OutOfBounds(data, lang_offset..(lang_offset + 1))
               THEN Panic("index out of bounds")
          ELSE [status            |-> "ok",
                version           |-> version,
                creation_time     |-> IF version = 1 THEN Slice(data, 4, 12)
                                      ELSE ZeroExtend(Slice(data, 4, 8)),
                modification_time |-> IF version = 1 THEN Slice(data, 12, 20)
                                      ELSE ZeroExtend(Slice(data, 8, 12)),
                timescale         |-> IF version = 1 THEN Slice(data, 20, 24)
                                      ELSE Slice(data, 12, 16),
                duration          |-> IF version = 1 THEN Slice(data, 24, 32)
                                      ELSE ZeroExtend(Slice(data, 16, 20)),
                language          |-> LangChars(At(data, lang_offset), At(data, lang_offset + 1))]

\* The decoder registered for a header box type.
HeaderBox_parse(kind, data) ==
    CASE kind = "tkhd" -> TrackHeaderBox_parse(data)
      [] kind = "mvhd" -> MovieHeaderBox_parse(data)
      [] kind = "mdhd" -> MediaHeaderBox_parse(data)

(***************************************************************************)
(* Format detection: the can_handle probes and DissectorBuilder.           *)
(***************************************************************************)
\* id3v2/tools.rs: detect_id3v2_version; <<major, minor>> or <<>> for None.
detect_id3v2_version(header) ==
    IF Len(header) >= 5 /\ Slice(header, 0, 3) = <<73, 68, 51>>      \* "ID3"
    THEN <<At(header, 3), At(header, 4)>>
    ELSE <<>>

\* id3v2/tools.rs: detect_mpeg_sync; (header[1] & 0xE0) == 0xE0 is header[1] >= 0xE0.
detect_mpeg_sync(header) ==
    Len(header) >= 2 /\ At(header, 0) = 255 /\ At(header, 1) >= 224

\* id3v2_3_dissector.rs: Id3v23Dissector::can_handle.
Id3v23_can_handle(header) ==
    IF detect_id3v2_version(header) # <<>>
    THEN detect_id3v2_version(header)[1] = 3
    ELSE detect_mpeg_sync(header)

\* The ID3v2.4 probe with the MPEG sync fallback of the ID3v2.3 probe.
Id3v24_can_handle_with_sync(header) ==
    IF detect_id3v2_version(header) # <<>>
    THEN detect_id3v2_version(header)[1] = 4
    ELSE detect_mpeg_sync(header)

\* id3v2_4_dissector.rs: Id3v24Dissector::can_handle.
Id3v24_can_handle(header) ==
    IF detect_id3v2_version(header) # <<>>
    THEN detect_id3v2_version(header)[1] = 4
    ELSE FALSE

\* Is b a UTF-8 continuation byte allowed as the second byte after lead b0?
Utf8Second(b0, b) ==
    CASE b0 = 224 -> b \in 160..191
      [] b0 = 237 -> b \in 128..159
      [] b0 = 240 -> b \in 144..191
      [] b0 = 244 -> b \in 128..143
      [] OTHER    -> b \in 128..191

RECURSIVE from_utf8_lossy_at(_, _)
\* String::from_utf8_lossy from index i: every maximal ill-formed run becomes U+FFFD.
from_utf8_lossy_at(d, i) ==
    IF i >= Len(d) THEN <<>>
    ELSE
      LET b0 == At(d, i)
          w  == IF b0 < 128 THEN 1
                ELSE IF b0 \in 194..223 THEN 2
                ELSE IF b0 \in 224..239 THEN 3
                ELSE IF b0 \in 240..244 THEN 4
                ELSE 0
          has(k) == i + k < Len(d)
          cont(k) == has(k) /\ At(d, i + k) \in 128..191
      IN  IF w = 1 THEN <<b0>> \o from_utf8_lossy_at(d, i + 1)
          ELSE IF w = 0 THEN <<65533>> \o from_utf8_lossy_at(d, i + 1)
          ELSE IF ~(has(1) /\ Utf8Second(b0, At(d, i + 1)))
               THEN <<65533>> \o from_utf8_lossy_at(d, i + 1)
          ELSE IF w = 2
               THEN <<(b0 - 192) * 64 + (At(d, i + 1) - 128)>> \o from_utf8_lossy_at(d, i + 2)
          ELSE IF ~cont(2) THEN <<65533>> \o from_utf8_lossy_at(d, i + 2)
          ELSE IF w = 3
               THEN <<((b0 - 224) * 64 + (At(d, i + 1) - 128)) * 64 + (At(d, i + 2) - 128)>>
                    \o from_utf8_lossy_at(d, i + 3)
          ELSE IF ~cont(3) THEN <<65533>> \o from_utf8_lossy_at(d, i + 3)
          ELSE <<(((b0 - 240) * 64 + (At(d, i + 1) - 128)) * 64 + (At(d, i + 2) - 128)) * 64
                  + (At(d, i + 3) - 128)>> \o from_utf8_lossy_at(d, i + 4)

\* String::from_utf8_lossy: the code points of the decoded string.
from_utf8_lossy(d) == from_utf8_lossy_at(d, 0)

\* isobmff/dissector.rs: the major brands can_handle accepts.
valid_brands ==
    {
      <<105, 115, 111, 109>>,   \* "isom"
      <<105, 115, 111, 50>>,   \* "iso2"
      <<105, 115, 111, 51>>,   \* "iso3"
      <<105, 115, 111, 52>>,   \* "iso4"
      <<105, 115, 111, 53>>,   \* "iso5"
      <<105, 115, 111, 54>>,   \* "iso6"
      <<109, 112, 52, 49>>,   \* "mp41"
      <<109, 112, 52, 50>>,   \* "mp42"
      <<109, 112, 55, 49>>,   \* "mp71"
      <<77, 52, 65, 32>>,   \* "M4A "
      <<77, 52, 86, 32>>,   \* "M4V "
      <<77, 52, 80, 32>>,   \* "M4P "
      <<77, 52, 66, 32>>,   \* "M4B "
      <<113, 116, 32, 32>>,   \* "qt  "
      <<109, 113, 116, 32>>,   \* "mqt "
      <<51, 103, 112, 52>>,   \* "3gp4"
      <<51, 103, 112, 53>>,   \* "3gp5"
      <<51, 103, 112, 54>>,   \* "3gp6"
      <<51, 103, 112, 55>>,   \* "3gp7"
      <<51, 103, 112, 56>>,   \* "3gp8"
      <<51, 103, 112, 57>>,   \* "3gp9"
      <<51, 103, 50, 97>>,   \* "3g2a"
      <<51, 103, 50, 98>>,   \* "3g2b"
      <<51, 103, 50, 99>>,   \* "3g2c"
      <<109, 109, 112, 52>>,   \* "mmp4"
      <<97, 118, 99, 49>>,   \* "avc1"
      <<77, 83, 78, 86>>,   \* "MSNV"
      <<100, 97, 115, 104>>,   \* "dash"
      <<109, 115, 100, 104>>,   \* "msdh"
      <<109, 115, 105, 120>>    \* "msix"
    }

\* A probe that takes every major brand after "ftyp".
Isobmff_can_handle_anybrand(header) ==
    IF Len(header) < 12 THEN FALSE
    ELSE from_utf8_lossy(Slice(header, 4, 8)) = <<102, 116, 121, 112>>

\* isobmff/dissector.rs: IsobmffDissector::can_handle.  The box type and the
\* major brand are compared as lossily decoded strings.
Isobmff_can_handle(header) ==
    IF Len(header) < 12 THEN FALSE
    ELSE IF from_utf8_lossy(Slice(header, 4, 8)) = <<102, 116, 121, 112>>   \* "ftyp"
         THEN \E b \in valid_brands : from_utf8_lossy(Slice(header, 8, 12)) = b
         ELSE FALSE

\* unknown_dissector.rs: UnknownDissector::can_handle.
Unknown_can_handle(header) == TRUE

\* MediaDissector::can_handle, dispatched on the dissector's media_type.
can_handle(dissector, header) ==
    CASE dissector = "ID3v2.3" -> Id3v23_can_handle(header)
      [] dissector = "ID3v2.4" -> Id3v24_can_handle(header)
      [] dissector = "ISOBMFF" -> Isobmff_can_handle(header)
      [] dissector = "Unknown" -> Unknown_can_handle(header)

\* A builder that probes the three decoders in the opposite order.
dissectors_reversed == <<"ISOBMFF", "ID3v2.4", "ID3v2.3">>

\* dissector_builder.rs: the vec of dissectors build_for_file tries, in order.
dissectors == <<"ID3v2.3", "ID3v2.4", "ISOBMFF">>

RECURSIVE first_match(_, _, _)
\* dissector_builder.rs: the for loop of build_for_file, from index i (one-based).
first_match(list, header, i) ==
    IF i > Len(list) THEN "Unknown"
    ELSE IF can_handle(list[i], header) = TRUE THEN list[i]
    ELSE first_match(list, header, i + 1)

\* std::fs::File: read_exact(n) succeeds iff n bytes remain at the cursor.
CanReadExact(f, cursor, n) == cursor + n <= Len(f)

\* The bytes read_exact(n) returns at the cursor.
ReadExact(f, cursor, n) == Slice(f, cursor, cursor + n)

SeekOp(p) == [op |-> "seek", pos |-> p, n |-> 0]

ReadOp(p, n) == [op |-> "read", pos |-> p, n |-> n]

\* A builder that does not seek back to the start after reading the header.
BuildForFile_noreset ==
    /\ d_pc = "start"
    /\ IF CanReadExact(d_file, 0, 12)
       THEN /\ d_chosen' = first_match(dissectors, ReadExact(d_file, 0, 12), 1)
            /\ d_cursor' = 12
            /\ d_log' = d_log \o <<SeekOp(0), ReadOp(0, 12)>>
            /\ d_pc' = "built"
       ELSE /\ d_chosen' = "none"
            /\ d_cursor' = Len(d_file)
            /\ d_log' = d_log \o <<SeekOp(0), ReadOp(0, 12)>>
            /\ d_pc' = "err"
    /\ UNCHANGED <<d_file, d_out>>

\* dissector_builder.rs: DissectorBuilder::build_for_file.
BuildForFile ==
    /\ d_pc = "start"
    /\ IF CanReadExact(d_file, 0, 12)
       THEN /\ d_chosen' = first_match(dissectors, ReadExact(d_file, 0, 12), 1)
            /\ d_cursor' = 0
            /\ d_log' = d_log \o <<SeekOp(0), ReadOp(0, 12), SeekOp(0)>>
            /\ d_pc' = "built"
       ELSE /\ d_chosen' = "none"
            /\ d_cursor' = Len(d_file)
            /\ d_log' = d_log \o <<SeekOp(0), ReadOp(0, 12)>>
            /\ d_pc' = "err"
    /\ UNCHANGED <<d_file, d_out>>

\* unknown_dissector.rs: UnknownDissector::dissect_with_options.
DissectUnknown ==
    /\ d_pc = "built" /\ d_chosen = "Unknown"
    /\ d_out' = Append(d_out, "Unknown format - no suitable dissector available")
    /\ d_pc' = "done"
    /\ UNCHANGED <<d_file, d_cursor, d_log, d_chosen>>

\* "{:02X}": a byte as two upper-case hexadecimal digits.
HexDigits == <<"0", "1", "2", "3", "4", "5", "6", "7", "8", "9", "A", "B", "C", "D", "E", "F">>

Hex02X(byte) == HexDigits[(byte \div 16) + 1] \o HexDigits[(byte % 16) + 1]

\* "0x{:02X}, " for every byte but the last, which has no ", " after it.
HexList(bytes) ==
    LET RECURSIVE from(_)
        from(i) == IF i > Len(bytes) THEN ""
                   ELSE "0x" \o Hex02X(bytes[i]) \o (IF i < Len(bytes) THEN ", " ELSE "") \o from(i + 1)
    IN  from(1)

\* The warnings of read_id3v2_header for the four size bytes, from index i
\* (zero-based), one for every byte with its top bit set.
SynchsafeWarnings(size_bytes) ==
    LET RECURSIVE from(_)
        from(i) == IF i >= Len(size_bytes) THEN <<>>
                   ELSE (IF size_bytes[i + 1] >= 128
                         THEN <<"  WARNING: Size byte " \o HexDigits[i + 1] \o " (0x"
                                    \o Hex02X(size_bytes[i + 1])
                                    \o ") violates synchsafe format (MSB set)!">>
                         ELSE <<>>) \o from(i + 1)
    IN  from(0)

\* id3v2/tools.rs: the lines read_id3v2_header prints for the 10 header bytes it
\* has read: none unless they begin with "ID3".
read_id3v2_header_lines(id3_header) ==
    IF Slice(id3_header, 0, 3) # <<73, 68, 51>> THEN <<>>
    ELSE <<"  Raw header bytes: [" \o HexList(id3_header) \o "]",
           "  Size bytes: [" \o HexList(Slice(id3_header, 6, 10)) \o "]">>
         \o SynchsafeWarnings(Slice(id3_header, 6, 10))
         \o (IF \E k \in 7..10 : id3_header[k] >= 128
             THEN <<"  ERROR: Invalid synchsafe format detected in size field">>
             ELSE <<>>)

\* id3v2/tools.rs: read_id3v2_header, the first step of both ID3v2 dissectors.
DissectId3Start ==
    /\ d_pc = "built" /\ d_chosen \in {"ID3v2.3", "ID3v2.4"}
    /\ d_log' = d_log \o <<SeekOp(0), ReadOp(0, 10)>>
    /\ d_cursor' = IF CanReadExact(d_file, 0, 10) THEN 10 ELSE Len(d_file)
    /\ d_out' = IF CanReadExact(d_file, 0, 10)
                THEN d_out \o read_id3v2_header_lines(ReadExact(d_file, 0, 10))
                ELSE d_out
    /\ d_pc' = "dissecting"
    /\ UNCHANGED <<d_file, d_chosen>>

\* isobmff/dissector.rs: the first box header read of parse_boxes(file, 0, len, 0).
DissectIsobmffStart ==
    /\ d_pc = "built" /\ d_chosen = "ISOBMFF"
    /\ d_log' = d_log \o (IF 0 < Len(d_file) THEN <<SeekOp(0), ReadOp(0, 8)>> ELSE <<>>)
    /\ d_cursor' = IF 0 < Len(d_file)
                   THEN (IF CanReadExact(d_file, 0, 8) THEN 8 ELSE Len(d_file))
                   ELSE d_cursor
    /\ d_pc' = "dissecting"
    /\ UNCHANGED <<d_file, d_out, d_chosen>>

(***************************************************************************)
(* id3v2/text_encoding.rs.  A TextEncoding is its byte value 0..3; a       *)
(* decoded String is the sequence of its Unicode code points.              *)
(***************************************************************************)
Ok(v) == [status |-> "ok", val |-> v]

IsOk(r) == r.status = "ok"

\* u16::from_be_bytes / u16::from_le_bytes.
u16_be(hi, lo) == hi * 256 + lo

\* TextEncoding::from_byte.
TextEncoding_from_byte(byte) ==
    IF byte \in 0..3 THEN Ok(byte) ELSE Err("Unknown text encoding")

\* TextEncoding::is_valid_for_version.
is_valid_for_version(encoding, version_major) ==
    IF encoding \in {0, 1} THEN TRUE ELSE version_major >= 4

\* get_terminator_length.
get_terminator_length(encoding) == IF encoding \in {0, 3} THEN 1 ELSE 2

\* is_null_terminator.
is_null_terminator(bytes, encoding) ==
    IF encoding \in {0, 3}
    THEN Len(bytes) # 0 /\ bytes[1] = 0
    ELSE Len(bytes) >= 2 /\ bytes[1] = 0 /\ bytes[2] = 0

\* decode_iso88591_string: every byte b becomes the character U+00b.
decode_iso88591_string(data) == [i \in 1..Len(data) |-> data[i]]

RECURSIVE from_utf16_at(_, _)
\* String::from_utf16 from unit i (one-based): Err on an unpaired surrogate.
from_utf16_at(units, i) ==
    IF i > Len(units) THEN Ok(<<>>)
    ELSE
      LET u == units[i]
      IN  IF u \in 55296..56319
          THEN IF i + 1 <= Len(units) /\ units[i + 1] \in 56320..57343
               THEN LET rest == from_utf16_at(units, i + 2)
                    IN  IF IsOk(rest)
                        THEN Ok(<<65536 + (u - 55296) * 1024 + (units[i + 1] - 56320)>> \o rest.val)
                        ELSE rest
               ELSE Err("Invalid UTF-16 sequence")
          ELSE IF u \in 56320..57343 THEN Err("Invalid UTF-16 sequence")
          ELSE LET rest == from_utf16_at(units, i + 1)
               IN  IF IsOk(rest) THEN Ok(<<u>> \o rest.val) ELSE rest

\* decode_utf16_string.
decode_utf16_string(data, encoding) ==
    IF Len(data) = 0 THEN Ok(<<>>)
    ELSE IF encoding \notin {1, 2} THEN Err("Invalid UTF-16 encoding")
    ELSE
      LET bom_le == encoding = 1 /\ Len(data) >= 2 /\ data[1] = 255 /\ data[2] = 254
          bom_be == encoding = 1 /\ Len(data) >= 2 /\ data[1] = 254 /\ data[2] = 255
          start_pos == IF bom_le \/ bom_be THEN 2 ELSE 0
          is_little_endian == bom_le
          utf16_data == Slice(data, start_pos, Len(data))
      IN  IF Len(utf16_data) % 2 # 0 THEN Err("UTF-16 data length must be even")
          ELSE from_utf16_at(
                 [k \in 1..(Len(utf16_data) \div 2) |->
                    IF is_little_endian
                    THEN u16_be(utf16_data[2 * k], utf16_data[2 * k - 1])
                    ELSE u16_be(utf16_data[2 * k - 1], utf16_data[2 * k])], 1)

\* decode_text_with_encoding_simple.
decode_text_with_encoding_simple(data, encoding) ==
    CASE encoding = 0 -> Ok(decode_iso88591_string(data))
      [] encoding = 3 -> Ok(from_utf8_lossy(data))
      [] OTHER        -> decode_utf16_string(data, encoding)

RECURSIVE scan_terminator(_, _, _, _)
\* The terminator search loops: from pos, advancing by step, until a terminator
\* starts at pos or fewer than a terminator's bytes remain.
scan_terminator(data, pos, encoding, step) ==
    LET tl == get_terminator_length(encoding)
    IN  IF pos + tl <= Len(data)
        THEN IF is_null_terminator(Slice(data, pos, pos + tl), encoding)
             THEN [pos |-> pos, found |-> TRUE]
             ELSE scan_terminator(data, pos + step, encoding, step)
        ELSE [pos |-> pos, found |-> FALSE]

\* Every string pushed, the empty ones too.
PushAlways(text, rest) == <<text>> \o rest

\* strings.push(text) unless text is empty, in front of the strings that follow.
PushNonEmpty(text, rest) == IF text = <<>> THEN rest ELSE <<text>> \o rest

RECURSIVE decode_strings_from(_, _, _)
\* The outer loop of decode_text_with_encoding from pos: Ok(strings) or Err.
decode_strings_from(data, pos, encoding) ==
    IF ~(pos < Len(data)) THEN Ok(<<>>)
    ELSE
      LET s     == scan_terminator(data, pos, encoding, IF encoding \in {1, 2} THEN 2 ELSE 1)
          first == IF pos < s.pos
                   THEN decode_text_with_encoding_simple(Slice(data, pos, s.pos), encoding)
                   ELSE Ok(<<>>)
      IN  IF ~IsOk(first) THEN first
          ELSE IF s.found
               THEN LET rest == decode_strings_from(data, s.pos + get_terminator_length(encoding),
                                                    encoding)
                    IN  IF IsOk(rest) THEN Ok(PushNonEmpty(first.val, rest.val)) ELSE rest
          ELSE IF s.pos < Len(data)
               THEN LET last == decode_text_with_encoding_simple(
                                    Slice(data, s.pos, Len(data)), encoding)
                    IN  IF IsOk(last)
                        THEN Ok(PushNonEmpty(first.val, PushNonEmpty(last.val, <<>>)))
                        ELSE last
          ELSE Ok(PushNonEmpty(first.val, <<>>))

\* decode_text_with_encoding: Ok([text, strings]) or Err.
decode_text_with_encoding(data, encoding) ==
    LET r == decode_strings_from(data, 0, encoding)
    IN  IF IsOk(r)
        THEN Ok([text |-> IF r.val = <<>> THEN <<>> ELSE r.val[1], strings |-> r.val])
        ELSE r

\* find_text_terminator: the bytes before and after the first terminator.
find_text_terminator(data, encoding) ==
    LET s == scan_terminator(data, 0, encoding, 1)
    IN  IF s.found
        THEN [first  |-> Slice(data, 0, s.pos),
              second |-> Slice(data, s.pos + get_terminator_length(encoding), Len(data))]
        ELSE [first |-> data, second |-> <<>>]

\* split_terminated_text: Ok([first, second]) or Err.
split_terminated_text(data, encoding) ==
    LET parts  == find_text_terminator(data, encoding)
        first  == decode_text_with_encoding_simple(parts.first, encoding)
        second == decode_text_with_encoding_simple(parts.second, encoding)
    IN  IF ~IsOk(first) THEN first
        ELSE IF ~IsOk(second) THEN second
        ELSE Ok([first |-> first.val, second |-> second.val])

(***************************************************************************)
(* id3v2/tools.rs: integer decoding and the per-version frame allow-lists. *)
(***************************************************************************)
\* decode_synchsafe_int: (b & 0x7F) is b % 128.
decode_synchsafe_int_nomask(bytes) ==
    IF Len(bytes) >= 4
    THEN bytes[1] * 2097152 + bytes[2] * 16384 + bytes[3] * 128 + bytes[4]
    ELSE 0

decode_synchsafe_int(bytes) ==
    IF Len(bytes) >= 4
    THEN (bytes[1] % 128) * 2097152 + (bytes[2] % 128) * 16384
         + (bytes[3] % 128) * 128 + (bytes[4] % 128)
    ELSE 0

\* A big-endian u32 below 2^31 (its first byte below 0x80).
FitsInt(b4) == b4[1] < 128

\* u32::from_be_bytes; evaluated only where FitsInt holds.
u32_from_be_bytes(b4) == ((b4[1] * 256 + b4[2]) * 256 + b4[3]) * 256 + b4[4]

\* is_valid_id3v2_3_frame: VALID_ID3V2_3_FRAME_IDS.
VALID_ID3V2_3_FRAME_IDS ==
    {
      <<84, 65, 76, 66>>,   \* "TALB"
      <<84, 66, 80, 77>>,   \* "TBPM"
      <<84, 67, 79, 77>>,   \* "TCOM"
      <<84, 67, 79, 78>>,   \* "TCON"
      <<84, 67, 79, 80>>,   \* "TCOP"
      <<84, 68, 65, 84>>,   \* "TDAT"
      <<84, 68, 76, 89>>,   \* "TDLY"
      <<84, 69, 78, 67>>,   \* "TENC"
      <<84, 69, 88, 84>>,   \* "TEXT"
      <<84, 70, 76, 84>>,   \* "TFLT"
      <<84, 73, 77, 69>>,   \* "TIME"
      <<84, 73, 84, 49>>,   \* "TIT1"
      <<84, 73, 84, 50>>,   \* "TIT2"
      <<84, 73, 84, 51>>,   \* "TIT3"
      <<84, 75, 69, 89>>,   \* "TKEY"
      <<84, 76, 65, 78>>,   \* "TLAN"
      <<84, 76, 69, 78>>,   \* "TLEN"
      <<84, 77, 69, 68>>,   \* "TMED"
      <<84, 79, 65, 76>>,   \* "TOAL"
      <<84, 79, 70, 78>>,   \* "TOFN"
      <<84, 79, 76, 89>>,   \* "TOLY"
      <<84, 79, 80, 69>>,   \* "TOPE"
      <<84, 79, 82, 89>>,   \* "TORY"
      <<84, 79, 87, 78>>,   \* "TOWN"
      <<84, 80, 69, 49>>,   \* "TPE1"
      <<84, 80, 69, 50>>,   \* "TPE2"
      <<84, 80, 69, 51>>,   \* "TPE3"
      <<84, 80, 69, 52>>,   \* "TPE4"
      <<84, 80, 79, 83>>,   \* "TPOS"
      <<84, 80, 85, 66>>,   \* "TPUB"
      <<84, 82, 67, 75>>,   \* "TRCK"
      <<84, 82, 68, 65>>,   \* "TRDA"
      <<84, 82, 83, 78>>,   \* "TRSN"
      <<84, 82, 83, 79>>,   \* "TRSO"
      <<84, 83, 73, 90>>,   \* "TSIZ"
      <<84, 83, 82, 67>>,   \* "TSRC"
      <<84, 83, 83, 69>>,   \* "TSSE"
      <<84, 89, 69, 82>>,   \* "TYER"
      <<84, 88, 88, 88>>,   \* "TXXX"
      <<87, 67, 79, 77>>,   \* "WCOM"
      <<87, 67, 79, 80>>,   \* "WCOP"
      <<87, 79, 65, 70>>,   \* "WOAF"
      <<87, 79, 65, 82>>,   \* "WOAR"
      <<87, 79, 65, 83>>,   \* "WOAS"
      <<87, 79, 82, 83>>,   \* "WORS"
      <<87, 80, 65, 89>>,   \* "WPAY"
      <<87, 80, 85, 66>>,   \* "WPUB"
      <<87, 88, 88, 88>>,   \* "WXXX"
      <<85, 70, 73, 68>>,   \* "UFID"
      <<77, 67, 68, 73>>,   \* "MCDI"
      <<69, 84, 67, 79>>,   \* "ETCO"
      <<77, 76, 76, 84>>,   \* "MLLT"
      <<83, 89, 84, 67>>,   \* "SYTC"
      <<85, 83, 76, 84>>,   \* "USLT"
      <<83, 89, 76, 84>>,   \* "SYLT"
      <<67, 79, 77, 77>>,   \* "COMM"
      <<82, 86, 65, 68>>,   \* "RVAD"
      <<69, 81, 85, 65>>,   \* "EQUA"
      <<82, 86, 82, 66>>,   \* "RVRB"
      <<80, 67, 78, 84>>,   \* "PCNT"
      <<80, 79, 80, 77>>,   \* "POPM"
      <<82, 66, 85, 70>>,   \* "RBUF"
      <<65, 69, 78, 67>>,   \* "AENC"
      <<76, 73, 78, 75>>,   \* "LINK"
      <<80, 79, 83, 83>>,   \* "POSS"
      <<85, 83, 69, 82>>,   \* "USER"
      <<79, 87, 78, 69>>,   \* "OWNE"
      <<67, 79, 77, 82>>,   \* "COMR"
      <<69, 78, 67, 82>>,   \* "ENCR"
      <<71, 82, 73, 68>>,   \* "GRID"
      <<80, 82, 73, 86>>,   \* "PRIV"
      <<71, 69, 79, 66>>,   \* "GEOB"
      <<73, 80, 76, 83>>,   \* "IPLS"
      <<65, 80, 73, 67>>,   \* "APIC"
      <<67, 72, 65, 80>>,   \* "CHAP"
      <<67, 84, 79, 67>>    \* "CTOC"
    }

\* is_valid_id3v2_4_frame: VALID_ID3V2_4_FRAME_IDS.
VALID_ID3V2_4_FRAME_IDS ==
    {
      <<84, 65, 76, 66>>,   \* "TALB"
      <<84, 66, 80, 77>>,   \* "TBPM"
      <<84, 67, 79, 77>>,   \* "TCOM"
      <<84, 67, 79, 78>>,   \* "TCON"
      <<84, 67, 79, 80>>,   \* "TCOP"
      <<84, 68, 69, 78>>,   \* "TDEN"
      <<84, 68, 76, 89>>,   \* "TDLY"
      <<84, 68, 79, 82>>,   \* "TDOR"
      <<84, 68, 82, 67>>,   \* "TDRC"
      <<84, 68, 82, 76>>,   \* "TDRL"
      <<84, 68, 84, 71>>,   \* "TDTG"
      <<84, 69, 78, 67>>,   \* "TENC"
      <<84, 69, 88, 84>>,   \* "TEXT"
      <<84, 70, 76, 84>>,   \* "TFLT"
      <<84, 73, 80, 76>>,   \* "TIPL"
      <<84, 73, 84, 49>>,   \* "TIT1"
      <<84, 73, 84, 50>>,   \* "TIT2"
      <<84, 73, 84, 51>>,   \* "TIT3"
      <<84, 75, 69, 89>>,   \* "TKEY"
      <<84, 76, 65, 78>>,   \* "TLAN"
      <<84, 76, 69, 78>>,   \* "TLEN"
      <<84, 77, 67, 76>>,   \* "TMCL"
      <<84, 77, 69, 68>>,   \* "TMED"
      <<84, 77, 79, 79>>,   \* "TMOO"
      <<84, 79, 65, 76>>,   \* "TOAL"
      <<84, 79, 70, 78>>,   \* "TOFN"
      <<84, 79, 76, 89>>,   \* "TOLY"
      <<84, 79, 80, 69>>,   \* "TOPE"
      <<84, 79, 87, 78>>,   \* "TOWN"
      <<84, 80, 69, 49>>,   \* "TPE1"
      <<84, 80, 69, 50>>,   \* "TPE2"
      <<84, 80, 69, 51>>,   \* "TPE3"
      <<84, 80, 69, 52>>,   \* "TPE4"
      <<84, 80, 79, 83>>,   \* "TPOS"
      <<84, 80, 82, 79>>,   \* "TPRO"
      <<84, 80, 85, 66>>,   \* "TPUB"
      <<84, 82, 67, 75>>,   \* "TRCK"
      <<84, 82, 83, 78>>,   \* "TRSN"
      <<84, 82, 83, 79>>,   \* "TRSO"
      <<84, 83, 79, 65>>,   \* "TSOA"
      <<84, 83, 79, 80>>,   \* "TSOP"
      <<84, 83, 79, 84>>,   \* "TSOT"
      <<84, 83, 82, 67>>,   \* "TSRC"
      <<84, 83, 83, 69>>,   \* "TSSE"
      <<84, 83, 83, 84>>,   \* "TSST"
      <<84, 88, 88, 88>>,   \* "TXXX"
      <<87, 67, 79, 77>>,   \* "WCOM"
      <<87, 67, 79, 80>>,   \* "WCOP"
      <<87, 79, 65, 70>>,   \* "WOAF"
      <<87, 79, 65, 82>>,   \* "WOAR"
      <<87, 79, 65, 83>>,   \* "WOAS"
      <<87, 79, 82, 83>>,   \* "WORS"
      <<87, 80, 65, 89>>,   \* "WPAY"
      <<87, 80, 85, 66>>,   \* "WPUB"
      <<87, 88, 88, 88>>,   \* "WXXX"
      <<85, 70, 73, 68>>,   \* "UFID"
      <<77, 67, 68, 73>>,   \* "MCDI"
      <<69, 84, 67, 79>>,   \* "ETCO"
      <<77, 76, 76, 84>>,   \* "MLLT"
      <<83, 89, 84, 67>>,   \* "SYTC"
      <<85, 83, 76, 84>>,   \* "USLT"
      <<83, 89, 76, 84>>,   \* "SYLT"
      <<67, 79, 77, 77>>,   \* "COMM"
      <<82, 86, 65, 50>>,   \* "RVA2"
      <<69, 81, 85, 50>>,   \* "EQU2"
      <<82, 86, 82, 66>>,   \* "RVRB"
      <<80, 67, 78, 84>>,   \* "PCNT"
      <<80, 79, 80, 77>>,   \* "POPM"
      <<82, 66, 85, 70>>,   \* "RBUF"
      <<65, 69, 78, 67>>,   \* "AENC"
      <<76, 73, 78, 75>>,   \* "LINK"
      <<80, 79, 83, 83>>,   \* "POSS"
      <<85, 83, 69, 82>>,   \* "USER"
      <<79, 87, 78, 69>>,   \* "OWNE"
      <<67, 79, 77, 82>>,   \* "COMR"
      <<69, 78, 67, 82>>,   \* "ENCR"
      <<71, 82, 73, 68>>,   \* "GRID"
      <<80, 82, 73, 86>>,   \* "PRIV"
      <<71, 69, 79, 66>>,   \* "GEOB"
      <<65, 80, 73, 67>>,   \* "APIC"
      <<83, 69, 69, 75>>,   \* "SEEK"
      <<65, 83, 80, 73>>,   \* "ASPI"
      <<83, 73, 71, 78>>,   \* "SIGN"
      <<67, 72, 65, 80>>,   \* "CHAP"
      <<67, 84, 79, 67>>    \* "CTOC"
    }

\* A test that takes every frame id for a valid one.
is_valid_frame_for_version_any(frame_id, version_major) == TRUE

\* is_valid_frame_for_version.
is_valid_frame_for_version(frame_id, version_major) ==
    CASE version_major = 3 -> frame_id \in VALID_ID3V2_3_FRAME_IDS
      [] version_major = 4 -> frame_id \in VALID_ID3V2_4_FRAME_IDS
      [] OTHER             -> FALSE

\* char::is_ascii_alphanumeric on a byte.
is_ascii_alphanumeric(b) == b \in 48..57 \/ b \in 65..90 \/ b \in 97..122

\* The padding test of the frame loops on the 4 id bytes: the id converted to a
\* string starts with NUL or has a character that is not ASCII alphanumeric.  A
\* byte of 0x80 or more converts to a non-ASCII character or to U+FFFD / "????".
is_padding_id(id_bytes) ==
    id_bytes[1] = 0 \/ ~(\A k \in 1..4 : is_ascii_alphanumeric(id_bytes[k]))

\* The declared frame size as the frame loops compare it: v2.4 synchsafe, v2.3
\* plain big-endian.  FrameSizeGt(b4, v, n) is frame_size > n for 0 <= n < 2^31.
FrameSizeGt(b4, version_major, n) ==
    IF version_major = 4 THEN decode_synchsafe_int(b4) > n
    ELSE ~FitsInt(b4) \/ u32_from_be_bytes(b4) > n

\* A size test that takes no size for zero.
FrameSizeIsZero_never(b4, version_major) == FALSE

\* frame_size == 0.
FrameSizeIsZero(b4, version_major) ==
    IF version_major = 4 THEN decode_synchsafe_int(b4) = 0
    ELSE b4 = <<0, 0, 0, 0>>

\* frame_size as an integer, where it is known not to exceed a buffer length.
FrameSize(b4, version_major) ==
    IF version_major = 4 THEN decode_synchsafe_int(b4) ELSE u32_from_be_bytes(b4)

(***************************************************************************)
(* ID3v2 frame content decoders (id3v2/frames/*.rs and their siblings).    *)
(* Each returns Ok(content) or Err(message).                               *)
(***************************************************************************)
RECURSIVE find_null(_, _)
\* while pos < data.len() && data[pos] != 0 { pos += 1 }: the final pos.
find_null(data, pos) ==
    IF pos < Len(data) /\ At(data, pos) # 0 THEN find_null(data, pos + 1) ELSE pos

\* id3v2/frames/text.rs: TextFrame::parse.
TextFrame_parse(data) ==
    IF Len(data) = 0 THEN Err("Text frame data is empty")
    ELSE LET encoding == TextEncoding_from_byte(At(data, 0))
         IN  IF ~IsOk(encoding) THEN encoding
             ELSE IF Len(data) < 2 THEN Err("Text frame data too short")
             ELSE LET r == decode_text_with_encoding(Slice(data, 1, Len(data)), encoding.val)
                  IN  IF ~IsOk(r) THEN r
                      ELSE Ok([kind |-> "Text", encoding |-> encoding.val,
                               text |-> r.val.text, strings |-> r.val.strings])

\* id3v2/frames/url.rs: UrlFrame::parse.
UrlFrame_parse(data) == Ok([kind |-> "Url", url |-> decode_iso88591_string(data)])

\* id3v2/frames/user_text.rs: UserTextFrame::parse.
UserTextFrame_parse(data) ==
    IF Len(data) = 0 THEN Err("User text frame data is empty")
    ELSE LET encoding == TextEncoding_from_byte(At(data, 0))
         IN  IF ~IsOk(encoding) THEN encoding
             ELSE IF Len(data) < 2 THEN Err("User text frame data too short")
             ELSE LET r == split_terminated_text(Slice(data, 1, Len(data)), encoding.val)
                  IN  IF ~IsOk(r) THEN r
                      ELSE Ok([kind |-> "UserText", encoding |-> encoding.val,
                               description |-> r.val.first, value |-> r.val.second])

\* id3v2_user_url_frame.rs: UserUrlFrame::parse.
UserUrlFrame_parse(data) ==
    IF Len(data) = 0 THEN Err("User URL frame data is empty")
    ELSE LET encoding == TextEncoding_from_byte(At(data, 0))
         IN  IF ~IsOk(encoding) THEN encoding
             ELSE IF Len(data) < 2 THEN Err("User URL frame data too short")
             ELSE LET parts == find_text_terminator(Slice(data, 1, Len(data)), encoding.val)
                      description == decode_text_with_encoding_simple(parts.first, encoding.val)
                  IN  IF ~IsOk(description) THEN description
                      ELSE Ok([kind |-> "UserUrl", encoding |-> encoding.val,
                               description |-> description.val,
                               url |-> decode_iso88591_string(parts.second)])

\* id3v2_comment_frame.rs: CommentFrame::parse.
CommentFrame_parse(data) ==
    IF Len(data) < 5 THEN Err("Comment frame data too short")
    ELSE LET encoding == TextEncoding_from_byte(At(data, 0))
         IN  IF ~IsOk(encoding) THEN encoding
             ELSE LET r == split_terminated_text(Slice(data, 4, Len(data)), encoding.val)
                  IN  IF ~IsOk(r) THEN r
                      ELSE Ok([kind |-> "Comment", encoding |-> encoding.val,
                               language |-> from_utf8_lossy(Slice(data, 1, 4)),
                               description |-> r.val.first, text |-> r.val.second])

\* id3v2_attached_picture_frame.rs: AttachedPictureFrame::parse.
AttachedPictureFrame_parse(data) ==
    IF Len(data) < 2 THEN Err("Picture frame data too short")
    ELSE
      LET encoding == TextEncoding_from_byte(At(data, 0))
          mime_end == find_null(data, 1)
          type_pos == mime_end + 1
          desc_start == type_pos + 1
      IN  IF ~IsOk(encoding) THEN encoding
          ELSE IF mime_end >= Len(data) THEN Err("Picture frame MIME type not null-terminated")
          ELSE IF type_pos >= Len(data) THEN Err("Picture frame missing picture type")
          ELSE
            LET terminator_len == get_terminator_length(encoding.val)
                pos == scan_terminator(data, desc_start, encoding.val, 1).pos
                description == decode_text_with_encoding_simple(
                                   Slice(data, desc_start, pos), encoding.val)
            IN  IF pos + terminator_len > Len(data)
                THEN Err("Picture frame description not properly terminated")
                ELSE IF ~IsOk(description) THEN description
                ELSE Ok([kind |-> "Picture", encoding |-> encoding.val,
                         mime_type |-> decode_iso88591_string(Slice(data, 1, mime_end)),
                         picture_type |-> At(data, type_pos),
                         description |-> description.val,
                         picture_data |-> Slice(data, pos + terminator_len, Len(data))])

\* id3v2/frames/unique_file_id.rs: UniqueFileIdFrame::parse.
UniqueFileIdFrame_parse(data) ==
    IF Len(data) = 0 THEN Err("UFID frame data is empty")
    ELSE LET pos == find_null(data, 0)
         IN  IF pos >= Len(data) THEN Err("UFID owner identifier not null-terminated")
             ELSE IF Len(data) - (pos + 1) > 64 THEN Err("UFID identifier too long (max 64 bytes)")
             ELSE Ok([kind |-> "UniqueFileId",
                      owner_identifier |-> decode_iso88591_string(Slice(data, 0, pos)),
                      identifier |-> Slice(data, pos + 1, Len(data))])

RECURSIVE parse_embedded_frames_from(_, _, _)

\* id3v2/tools.rs: parse_embedded_frames.
parse_embedded_frames(frame_data, version_major) ==
    parse_embedded_frames_from(frame_data, 0, version_major)

\* A chapter decoder that hands its whole payload to parse_embedded_frames.
ChapterFrame_parse_whole(data, version_major) ==
    IF Len(data) = 0 THEN Err("Chapter frame data is empty")
    ELSE
      LET id_end == find_null(data, 0)
          pos    == id_end + 1
      IN  IF id_end >= Len(data) THEN Err("Chapter frame element ID not null-terminated")
          ELSE IF pos + 4 > Len(data) THEN Err("Chapter frame missing start time")
          ELSE IF pos + 8 > Len(data) THEN Err("Chapter frame missing end time")
          ELSE IF pos + 12 > Len(data) THEN Err("Chapter frame missing start offset")
          ELSE IF pos + 16 > Len(data) THEN Err("Chapter frame missing end offset")
          ELSE Ok([kind |-> "Chapter",
                   element_id   |-> decode_iso88591_string(Slice(data, 0, id_end)),
                   start_time   |-> Slice(data, pos, pos + 4),
                   end_time     |-> Slice(data, pos + 4, pos + 8),
                   start_offset |-> Slice(data, pos + 8, pos + 12),
                   end_offset   |-> Slice(data, pos + 12, pos + 16),
                   sub_frames   |-> parse_embedded_frames(data, version_major)])

\* id3v2/frames/chapter.rs: ChapterFrame::parse.
ChapterFrame_parse(data, version_major) ==
    IF Len(data) = 0 THEN Err("Chapter frame data is empty")
    ELSE
      LET id_end == find_null(data, 0)
          pos    == id_end + 1
      IN  IF id_end >= Len(data) THEN Err("Chapter frame element ID not null-terminated")
          ELSE IF pos + 4 > Len(data) THEN Err("Chapter frame missing start time")
          ELSE IF pos + 8 > Len(data) THEN Err("Chapter frame missing end time")
          ELSE IF pos + 12 > Len(data) THEN Err("Chapter frame missing start offset")
          ELSE IF pos + 16 > Len(data) THEN Err("Chapter frame missing end offset")
          ELSE Ok([kind |-> "Chapter",
                   element_id   |-> decode_iso88591_string(Slice(data, 0, id_end)),
                   start_time   |-> Slice(data, pos, pos + 4),
                   end_time     |-> Slice(data, pos + 4, pos + 8),
                   start_offset |-> Slice(data, pos + 8, pos + 12),
                   end_offset   |-> Slice(data, pos + 12, pos + 16),
                   sub_frames   |-> IF pos + 16 < Len(data)
                                    THEN parse_embedded_frames(
                                             Slice(data, pos + 16, Len(data)), version_major)
                                    ELSE <<>>])

RECURSIVE toc_child_ids(_, _, _)
\* The entry loop of TableOfContentsFrame::parse with n entries left from pos:
\* Ok([ids, pos]) or Err.
toc_child_ids(data, pos, n) ==
    IF n = 0 THEN Ok([ids |-> <<>>, pos |-> pos])
    ELSE LET id_end == find_null(data, pos)
         IN  IF id_end >= Len(data) THEN Err("TOC frame child element ID not null-terminated")
             ELSE LET rest == toc_child_ids(data, id_end + 1, n - 1)
                  IN  IF ~IsOk(rest) THEN rest
                      ELSE Ok([ids |-> <<decode_iso88591_string(Slice(data, pos, id_end))>>
                                       \o rest.val.ids,
                               pos |-> rest.val.pos])

\* id3v2/frames/table_of_contents.rs: TableOfContentsFrame::parse.
TableOfContentsFrame_parse(data, version_major) ==
    IF Len(data) = 0 THEN Err("Table of contents frame data is empty")
    ELSE
      LET id_end == find_null(data, 0)
          flags_pos == id_end + 1
          count_pos == flags_pos + 1
      IN  IF id_end >= Len(data) THEN Err("TOC frame element ID not null-terminated")
          ELSE IF flags_pos >= Len(data) THEN Err("TOC frame missing flags")
          ELSE IF count_pos >= Len(data) THEN Err("TOC frame missing entry count")
          ELSE
            LET flags == At(data, flags_pos)
                children == toc_child_ids(data, count_pos + 1, At(data, count_pos))
            IN  IF ~IsOk(children) THEN children
                ELSE Ok([kind |-> "TableOfContents",
                         element_id |-> decode_iso88591_string(Slice(data, 0, id_end)),
                         top_level  |-> (flags \div 2) % 2 = 1,
                         ordered    |-> flags % 2 = 1,
                         child_element_ids |-> children.val.ids,
                         sub_frames |-> IF children.val.pos < Len(data)
                                        THEN parse_embedded_frames(
                                                 Slice(data, children.val.pos, Len(data)),
                                                 version_major)
                                        ELSE <<>>])

(***************************************************************************)
(* id3v2/frame.rs: Id3v2Frame.                                             *)
(***************************************************************************)
\* Option::None for Id3v2Frame.content.
NoContent == [kind |-> "None"]

\* Id3v2FrameContent::Binary.
Binary == [kind |-> "Binary"]

\* Id3v2Frame::new_with_offset.
new_with_offset(id, size, flags, offset, data) ==
    [id |-> id, size |-> size, flags |-> flags, offset |-> offset, data |-> data,
     content |-> NoContent, embedded_frames |-> "None"]

\* The encoding check that follows a typed decode in parse_content.
CheckEncoding(r, version_major) ==
    IF ~IsOk(r) THEN r
    ELSE IF ~is_valid_for_version(r.val.encoding, version_major)
         THEN Err("Text encoding is not valid for this ID3v2 version")
         ELSE r

\* Id3v2Frame::parse_content: the Result, carrying the content computed on Ok.
parse_content_result(id, data, version_major) ==
    IF ~is_valid_frame_for_version(id, version_major) THEN Ok(Binary)
    ELSE CASE id[1] = 84 /\ id # <<84, 88, 88, 88>>            \* T*** except TXXX
                -> CheckEncoding(TextFrame_parse(data), version_major)
           [] id[1] = 87 /\ id # <<87, 88, 88, 88>>            \* W*** except WXXX
                -> UrlFrame_parse(data)
           [] id = <<84, 88, 88, 88>>                          \* "TXXX"
                -> CheckEncoding(UserTextFrame_parse(data), version_major)
           [] id = <<87, 88, 88, 88>>                          \* "WXXX"
                -> CheckEncoding(UserUrlFrame_parse(data), version_major)
           [] id \in {<<67, 79, 77, 77>>, <<85, 83, 76, 84>>}  \* "COMM" | "USLT"
                -> CheckEncoding(CommentFrame_parse(data), version_major)
           [] id = <<65, 80, 73, 67>>                          \* "APIC"
                -> CheckEncoding(AttachedPictureFrame_parse(data), version_major)
           [] id = <<85, 70, 73, 68>>                          \* "UFID"
                -> UniqueFileIdFrame_parse(data)
           [] id = <<67, 72, 65, 80>>                          \* "CHAP"
                -> ChapterFrame_parse(data, version_major)
           [] id = <<67, 84, 79, 67>>                          \* "CTOC"
                -> TableOfContentsFrame_parse(data, version_major)
           [] OTHER -> Ok(Binary)

\* A parse_content that stores Binary when the typed decode fails.
content_after_binary_fallback(old, r) == IF IsOk(r) THEN r.val ELSE Binary

\* Id3v2Frame::parse_content: self.content after the call; an Err returns before
\* the assignment, so the content stays what it was.
content_after(old, r) == IF IsOk(r) THEN r.val ELSE old

\* Id3v2Frame::parse_content applied to a frame whose Result the caller ignores.
parse_content(frame, version_major) ==
    [frame EXCEPT !.content =
        content_after(frame.content, parse_content_result(frame.id, frame.data, version_major))]

\* id3v2/tools.rs: the loop of parse_embedded_frames from pos.
parse_embedded_frames_from(frame_data, pos, version_major) ==
    IF ~(pos + 10 <= Len(frame_data)) THEN <<>>
    ELSE
      LET frame_id   == Slice(frame_data, pos, pos + 4)
          size_bytes == Slice(frame_data, pos + 4, pos + 8)
      IN  IF is_padding_id(frame_id) THEN <<>>
          ELSE IF is_valid_frame_for_version(frame_id, version_major) = FALSE THEN <<>>
          ELSE IF FrameSizeGt(size_bytes, version_major, Len(frame_data) - pos - 10) THEN <<>>
          ELSE
            LET frame_size == FrameSize(size_bytes, version_major)
                embedded_frame ==
                    new_with_offset(frame_id, frame_size,
                                    u16_be(At(frame_data, pos + 8), At(frame_data, pos + 9)),
                                    pos,
                                    Slice(frame_data, pos + 10, pos + 10 + frame_size))
            IN  <<parse_content(embedded_frame, version_major)>>
                \o parse_embedded_frames_from(frame_data, pos + 10 + frame_size, version_major)

(***************************************************************************)
(* The ID3v2 tag decoder: id3v2_3_dissector.rs and id3v2_4_dissector.rs.   *)
(* The two files differ in the version number, the frame-size decoding,    *)
(* the extended-header size decoding and the allow-list; t_version selects.*)
(***************************************************************************)
\* Bit b (a power of two) of a flags byte: flags & b != 0.
FlagSet(flags, b) == (flags \div b) % 2 = 1

\* Option::None of parse_id3v2_3_frame / parse_id3v2_4_frame.
NoFrame == [some |-> FALSE]

\* A frame parser whose size test is off by one: a frame that ends exactly at
\* the end of the buffer is refused.
parse_id3v2_frame_short(buffer, pos, version_major) ==
    IF pos + 10 > Len(buffer) THEN NoFrame
    ELSE
      LET frame_id   == Slice(buffer, pos, pos + 4)
          size_bytes == Slice(buffer, pos + 4, pos + 8)
      IN  IF is_padding_id(frame_id) THEN NoFrame
          ELSE IF ~is_valid_frame_for_version(frame_id, version_major) THEN NoFrame
          ELSE IF FrameSizeIsZero(size_bytes, version_major)
                  \/ FrameSizeGt(size_bytes, version_major, Len(buffer) - pos - 11)
               THEN NoFrame
          ELSE
            LET frame_size == FrameSize(size_bytes, version_major)
                frame == new_with_offset(frame_id, frame_size,
                                         u16_be(At(buffer, pos + 8), At(buffer, pos + 9)),
                                         pos,
                                         Slice(buffer, pos + 10, pos + 10 + frame_size))
            IN  [some |-> TRUE, frame |-> parse_content(frame, version_major)]

\* parse_id3v2_3_frame / parse_id3v2_4_frame.
parse_id3v2_frame(buffer, pos, version_major) ==
    IF pos + 10 > Len(buffer) THEN NoFrame
    ELSE
      LET frame_id   == Slice(buffer, pos, pos + 4)
          size_bytes == Slice(buffer, pos + 4, pos + 8)
      IN  IF is_padding_id(frame_id) THEN NoFrame
          ELSE IF ~is_valid_frame_for_version(frame_id, version_major) THEN NoFrame
          ELSE IF FrameSizeIsZero(size_bytes, version_major)
                  \/ FrameSizeGt(size_bytes, version_major, Len(buffer) - pos - 10)
               THEN NoFrame
          ELSE
            LET frame_size == FrameSize(size_bytes, version_major)
                frame == new_with_offset(frame_id, frame_size,
                                         u16_be(At(buffer, pos + 8), At(buffer, pos + 9)),
                                         pos,
                                         Slice(buffer, pos + 10, pos + 10 + frame_size))
            IN  [some |-> TRUE, frame |-> parse_content(frame, version_major)]

\* dissect_id3v2_N_file_with_options up to the call of dissect_id3v2_N_with_options:
\* read_id3v2_header (seek to 0, read 10 bytes, check "ID3", decode the size) and
\* the version and size tests.
TagReadHeader ==
    /\ t_pc = "start"
    /\ IF ~CanReadExact(t_file, 0, 10)
       THEN /\ t_pc' = "done"
            /\ t_cursor' = Len(t_file)
            /\ UNCHANGED <<t_flags, t_tag_size>>
       ELSE LET id3_header == ReadExact(t_file, 0, 10)
            IN  /\ t_cursor' = 10
                /\ IF Slice(id3_header, 0, 3) # <<73, 68, 51>>
                   THEN t_pc' = "done" /\ UNCHANGED <<t_flags, t_tag_size>>
                   ELSE /\ t_flags' = At(id3_header, 5)
                        /\ t_tag_size' = decode_synchsafe_int(Slice(id3_header, 6, 10))
                        /\ t_pc' = IF At(id3_header, 3) = t_version /\ t_tag_size' > 0
                                   THEN "tag" ELSE "done"
    /\ UNCHANGED <<t_version, t_show, t_file, t_alloc, t_buffer, t_pos, t_frames, t_last>>

\* dissect_id3v2_N_with_options: allocate tag_size bytes and read_exact them; with
\* frames not shown the data is only skipped.
TagReadBuffer ==
    /\ t_pc = "tag"
    /\ t_alloc' = t_tag_size
    /\ IF CanReadExact(t_file, t_cursor, t_tag_size)
       THEN /\ t_buffer' = ReadExact(t_file, t_cursor, t_tag_size)
            /\ t_cursor' = t_cursor + t_tag_size
            /\ t_pc' = IF t_show THEN "unsync" ELSE "done"
       ELSE /\ t_buffer' = <<>>
            /\ t_cursor' = Len(t_file)
            /\ t_pc' = "err"
    /\ UNCHANGED <<t_version, t_show, t_file, t_flags, t_tag_size, t_pos, t_frames, t_last>>

\* A decoder that leaves the buffer as it was read.
TagUnsync_skip ==
    /\ t_pc = "unsync"
    /\ t_buffer' = t_buffer
    /\ t_pc' = "ext"
    /\ UNCHANGED <<t_version, t_show, t_file, t_cursor, t_flags, t_tag_size, t_alloc, t_pos,
                   t_frames, t_last>>

\* dissect_id3v2_N_with_options: unsynchronization removal when flag bit 7 is set.
TagUnsync ==
    /\ t_pc = "unsync"
    /\ t_buffer' = IF FlagSet(t_flags, 128) THEN remove_unsynchronization(t_buffer)
                   ELSE t_buffer
    /\ t_pc' = "ext"
    /\ UNCHANGED <<t_version, t_show, t_file, t_cursor, t_flags, t_tag_size, t_alloc, t_pos,
                   t_frames, t_last>>

\* extended_size > n for the extended-header size at the start of the buffer.
ExtSizeGt(buffer, version_major, n) == FrameSizeGt(Slice(buffer, 0, 4), version_major, n)

\* A decoder that starts at the first buffer byte whatever the flags say.
TagExtHeader_ignored ==
    /\ t_pc = "ext"
    /\ t_pos' = 0 /\ t_pc' = "frames"
    /\ UNCHANGED <<t_version, t_show, t_file, t_cursor, t_flags, t_tag_size, t_alloc,
                   t_buffer, t_frames, t_last>>

\* dissect_id3v2_N_with_options: the extended header, when flag bit 6 is set.
TagExtHeader ==
    /\ t_pc = "ext"
    /\ IF ~FlagSet(t_flags, 64)
       THEN t_pos' = 0 /\ t_pc' = "frames"
       ELSE IF Len(t_buffer) >= 4
            THEN IF ExtSizeGt(t_buffer, t_version, Len(t_buffer) - 4)
                 THEN t_pc' = "err" /\ UNCHANGED t_pos
                 ELSE /\ t_pos' = 4 + FrameSize(Slice(t_buffer, 0, 4), t_version)
                      /\ t_pc' = "frames"
            ELSE t_pc' = "err" /\ UNCHANGED t_pos
    /\ UNCHANGED <<t_version, t_show, t_file, t_cursor, t_flags, t_tag_size, t_alloc,
                   t_buffer, t_frames, t_last>>

\* The frame loop's "if let Some(frame) = parse_id3v2_N_frame(..)": the frame is
\* pushed onto the list of frames.
TagFrameParsed(parsed) ==
    /\ t_frames' = IF parsed.some THEN Append(t_frames, parsed.frame) ELSE t_frames
    /\ t_last' = IF parsed.some THEN "decoded" ELSE "parse_none"

\* A loop that steps over the header of a frame that does not fit and goes on.
TagOversize_skip ==
    t_last' = "oversize" /\ t_pos' = t_pos + 10 /\ UNCHANGED <<t_pc, t_frames>>

\* The frame loop's "if frame_size > remaining { break; }".
TagOversize ==
    t_last' = "oversize" /\ t_pc' = "done" /\ UNCHANGED <<t_pos, t_frames>>

\* One iteration of the frame loop of dissect_id3v2_N_with_options.
TagFrameStep ==
    /\ t_pc = "frames"
    /\ t_pos + 10 <= Len(t_buffer)
    /\ LET frame_id   == Slice(t_buffer, t_pos, t_pos + 4)
           size_bytes == Slice(t_buffer, t_pos + 4, t_pos + 8)
           remaining  == Len(t_buffer) - t_pos - 10
       IN  IF is_padding_id(frame_id)
           THEN t_last' = "padding" /\ t_pc' = "done" /\ UNCHANGED <<t_pos, t_frames>>
           ELSE IF ~is_valid_frame_for_version(frame_id, t_version)
           THEN /\ IF ~FrameSizeIsZero(size_bytes, t_version)
                      /\ ~FrameSizeGt(size_bytes, t_version, remaining)
                   THEN /\ t_pos' = t_pos + 10 + FrameSize(size_bytes, t_version)
                        /\ t_last' = "skip_frame"
                   ELSE /\ t_pos' = t_pos + 1
                        /\ t_last' = "skip_byte"
                /\ UNCHANGED <<t_pc, t_frames>>
           ELSE IF FrameSizeIsZero(size_bytes, t_version)
           THEN t_pos' = t_pos + 10 /\ t_last' = "zero" /\ UNCHANGED <<t_pc, t_frames>>
           ELSE IF FrameSizeGt(size_bytes, t_version, remaining)
           THEN TagOversize
           ELSE /\ TagFrameParsed(parse_id3v2_frame(t_buffer, t_pos, t_version))
                /\ t_pos' = t_pos + 10 + FrameSize(size_bytes, t_version)
                /\ UNCHANGED t_pc
    /\ UNCHANGED <<t_version, t_show, t_file, t_cursor, t_flags, t_tag_size, t_alloc, t_buffer>>

\* The frame loop's exit: fewer than 10 bytes remain at pos.
TagLoopEnd ==
    /\ t_pc = "frames"
    /\ ~(t_pos + 10 <= Len(t_buffer))
    /\ t_pc' = "done"
    /\ t_last' = "end"
    /\ UNCHANGED <<t_version, t_show, t_file, t_cursor, t_flags, t_tag_size, t_alloc,
                   t_buffer, t_pos, t_frames>>

(***************************************************************************)
(* Unsigned 64-bit integers.  A u64 is its 8 big-endian bytes, so that     *)
(* sizes up to 2^64 - 1 and the wrap-around of an addition are exact.      *)
(* File offsets and lengths stay below 2^31 and are plain integers.        *)
(***************************************************************************)
\* n as u64, for 0 <= n < 2^31.
U64(n) == <<0, 0, 0, 0, (n \div 16777216) % 256, (n \div 65536) % 256, (n \div 256) % 256, n % 256>>

\* The u64 is below 2^31.
U64Fits(b8) == b8[1] = 0 /\ b8[2] = 0 /\ b8[3] = 0 /\ b8[4] = 0 /\ b8[5] < 128

\* The value of a u64 below 2^31.
U64ToInt(b8) == ((b8[5] * 256 + b8[6]) * 256 + b8[7]) * 256 + b8[8]

RECURSIVE U64Carry(_, _, _)
\* The carry out of byte i (and the bytes right of it) when adding a and b.
U64Carry(a, b, i) ==
    IF i > 8 THEN 0 ELSE (a[i] + b[i] + U64Carry(a, b, i + 1)) \div 256

\* a + b on u64: the sum modulo 2^64 and whether it overflowed.
U64Add(a, b) ==
    [value    |-> [i \in 1..8 |-> (a[i] + b[i] + U64Carry(a, b, i + 1)) % 256],
     overflow |-> U64Carry(a, b, 1) = 1]

\* a < b on u64.
U64Lt(a, b) == \E i \in 1..8 : a[i] < b[i] /\ \A j \in 1..(i - 1) : a[j] = b[j]

(***************************************************************************)
(* The file of the ISOBMFF decoder: the bytes of head followed by pad zero *)
(* bytes (a payload too large to enumerate byte by byte).                  *)
(***************************************************************************)
FileLen(file) == Len(file.head) + file.pad

\* The byte at offset i (zero-based).
FileByte(file, i) == IF i < Len(file.head) THEN file.head[i + 1] ELSE 0

\* read_exact of n bytes at offset off succeeds iff the file has them.
FileCanRead(file, off, n) == off + n <= FileLen(file)

\* The n bytes at offset off.
FileSlice(file, off, n) == [k \in 1..n |-> FileByte(file, off + k - 1)]

(***************************************************************************)
(* isobmff_box.rs and isobmff/content.rs: boxes.  A box type is the string *)
(* box_type_to_string makes of the four type bytes, as its code points.    *)
(***************************************************************************)
None == [some |-> FALSE]

Some(v) == [some |-> TRUE, val |-> v]

\* isobmff/dissector.rs: IsobmffDissector::box_type_to_string.
box_type_to_string(bytes) ==
    [i \in 1..Len(bytes) |->
        IF bytes[i] = 169 THEN 169                                   \* 0xA9: the copyright sign
        ELSE IF bytes[i] \in 33..126 \/ bytes[i] = 32 THEN bytes[i]
        ELSE 63]                                                     \* '?'

STANDARD_CONTAINER_TYPES ==
    { <<109, 111, 111, 118>>, <<116, 114, 97, 107>>, <<101, 100, 116, 115>>, <<109, 100, 105, 97>>,   \* "moov" "trak" "edts" "mdia"
      <<109, 105, 110, 102>>, <<100, 105, 110, 102>>, <<115, 116, 98, 108>>, <<109, 118, 101, 120>>,   \* "minf" "dinf" "stbl" "mvex"
      <<109, 111, 111, 102>>, <<116, 114, 97, 102>>, <<109, 102, 114, 97>>, <<109, 101, 116, 97>>,   \* "moof" "traf" "mfra" "meta"
      <<105, 112, 114, 111>>, <<117, 100, 116, 97>>, <<116, 114, 101, 102>>, <<105, 108, 115, 116>> }   \* "ipro" "udta" "tref" "ilst"

ITUNES_METADATA_TYPES ==
    { <<116, 114, 107, 110>>, <<100, 105, 115, 107>>, <<116, 109, 112, 111>>, <<99, 111, 118, 114>>,   \* "trkn" "disk" "tmpo" "covr"
      <<97, 65, 82, 84>>, <<45, 45, 45, 45>>, <<103, 110, 114, 101>>, <<104, 100, 118, 100>>,   \* "aART" "----" "gnre" "hdvd"
      <<112, 103, 97, 112>>, <<112, 99, 115, 116>>, <<99, 112, 105, 108>>, <<114, 116, 110, 103>>,   \* "pgap" "pcst" "cpil" "rtng"
      <<115, 116, 105, 107>>, <<116, 118, 101, 110>>, <<116, 118, 101, 115>>, <<116, 118, 110, 110>>,   \* "stik" "tven" "tves" "tvnn"
      <<116, 118, 115, 104>>, <<116, 118, 115, 110>>, <<97, 112, 73, 68>>, <<97, 107, 73, 68>>,   \* "tvsh" "tvsn" "apID" "akID"
      <<97, 116, 73, 68>>, <<99, 110, 73, 68>>, <<103, 101, 73, 68>>, <<112, 108, 73, 68>>,   \* "atID" "cnID" "geID" "plID"
      <<115, 102, 73, 68>>, <<115, 111, 97, 97>>, <<115, 111, 97, 108>>, <<115, 111, 97, 114>>,   \* "sfID" "soaa" "soal" "soar"
      <<115, 111, 99, 111>>, <<115, 111, 110, 109>>, <<115, 111, 115, 110>>, <<120, 105, 100, 32>>,   \* "soco" "sonm" "sosn" "xid "
      <<107, 101, 121, 119>>, <<99, 97, 116, 103>>, <<112, 117, 114, 108>>, <<101, 103, 105, 100>>,   \* "keyw" "catg" "purl" "egid"
      <<100, 101, 115, 99>>, <<108, 100, 101, 115>>, <<115, 100, 101, 115>> }   \* "desc" "ldes" "sdes"

\* isobmff_box.rs: is_container_type.
is_container_type(box_type) ==
    \/ box_type \in STANDARD_CONTAINER_TYPES
    \/ (Len(box_type) > 0 /\ box_type[1] = 169)
    \/ box_type \in ITUNES_METADATA_TYPES

\* isobmff/dissector.rs: IsobmffDissector::is_itunes_metadata_box.
is_itunes_metadata_box(box_type) ==
    \/ (Len(box_type) > 0 /\ box_type[1] = 169)
    \/ box_type \in ITUNES_METADATA_TYPES

\* A box's data: the bytes at [off, off + len) of the file; len = 0 is the empty Vec.
NoData == [off |-> 0, len |-> 0]

\* isobmff_box.rs: IsobmffBox::new.
IsobmffBox_new(offset, box_type, size, header_size) ==
    [offset |-> offset, box_type |-> box_type, size |-> size, header_size |-> header_size,
     is_container |-> is_container_type(box_type), children |-> <<>>, data |-> NoData,
     content |-> None, itunes_content |-> None]

\* isobmff_box.rs: IsobmffBox::data_size as an integer, defined where self.size is
\* below 2^31: self.size.saturating_sub(self.header_size).
data_size(size, header_size) ==
    IF U64ToInt(size) < header_size THEN 0 ELSE U64ToInt(size) - header_size

\* "data_size > 0 && data_size <= 1024 * 1024": a size of 2^31 or more is over the cap.
LEAF_DATA_CAP == 1048576

\* A reader whose cap is half of the cap of the source.
data_is_read_halfcap(size, header_size) ==
    /\ U64Fits(size)
    /\ data_size(size, header_size) > 0
    /\ data_size(size, header_size) <= LEAF_DATA_CAP \div 2

data_is_read(size, header_size) ==
    /\ U64Fits(size)
    /\ data_size(size, header_size) > 0
    /\ data_size(size, header_size) <= LEAF_DATA_CAP

\* isobmff/boxes/file_type.rs: FileTypeBox::parse.
FileTypeBox_parse(data) ==
    IF Len(data) < 8 THEN Err("ftyp box too short")
    ELSE [status            |-> "ok",
          major_brand       |-> from_utf8_lossy(Slice(data, 0, 4)),
          minor_version     |-> Slice(data, 4, 8),
          compatible_brands |-> [k \in 1..((Len(data) - 8) \div 4) |->
                                    from_utf8_lossy(Slice(data, 4 + 4 * k, 8 + 4 * k))]]

RECURSIVE stsd_entries(_, _, _)
\* isobmff_sample_table.rs: the loop "for _ in 0..entry_count" of
\* SampleDescriptionBox::parse with n iterations left at offset: the formats pushed.
\* An entry size of 2^31 or more moves the offset past any payload.
stsd_entries(data, offset, n) ==
    IF n = 0 THEN <<>>
    ELSE IF offset + 8 > Len(data) THEN <<>>
    ELSE <<from_utf8_lossy(Slice(data, offset + 4, offset + 8))>>
         \o (IF ~FitsInt(Slice(data, offset, offset + 4)) THEN <<>>
             ELSE IF offset + u32_from_be_bytes(Slice(data, offset, offset + 4)) >= Len(data)
                  THEN <<>>
                  ELSE stsd_entries(data,
                                    offset + u32_from_be_bytes(Slice(data, offset, offset + 4)),
                                    n - 1))

\* isobmff_sample_table.rs: SampleDescriptionBox::parse, for an entry count
\* below 2^31.
SampleDescriptionBox_parse(data) ==
    IF Len(data) < 8 THEN Err("stsd box too short")
    ELSE [status      |-> "ok",
          version     |-> At(data, 0),
          entry_count |-> Slice(data, 4, 8),
          entries     |-> stsd_entries(data, 8, u32_from_be_bytes(Slice(data, 4, 8)))]

\* The decoders whose only failure is a payload shorter than the fixed fields
\* they read (HandlerBox::parse: "if data.len() < 24"); their fields are not
\* part of this model.
parse_with_min_len(data, min_len) ==
    IF Len(data) < min_len THEN Err("box too short") ELSE [status |-> "unmodelled"]

\* The content decoder parse_boxes selects by box type; "skip" for the types with
\* no decoder.
leaf_content(box_type, data) ==
    CASE box_type = <<102, 116, 121, 112>> -> FileTypeBox_parse(data)           \* "ftyp"
      [] box_type = <<109, 118, 104, 100>> -> MovieHeaderBox_parse(data)        \* "mvhd"
      [] box_type = <<116, 107, 104, 100>> -> TrackHeaderBox_parse(data)        \* "tkhd"
      [] box_type = <<109, 100, 104, 100>> -> MediaHeaderBox_parse(data)        \* "mdhd"
      [] box_type = <<104, 100, 108, 114>> -> parse_with_min_len(data, 24)      \* "hdlr"
      [] box_type = <<118, 109, 104, 100>> -> parse_with_min_len(data, 12)      \* "vmhd"
      [] box_type = <<115, 109, 104, 100>> -> parse_with_min_len(data, 8)       \* "smhd"
      [] box_type = <<110, 109, 104, 100>> -> parse_with_min_len(data, 4)       \* "nmhd"
      [] box_type = <<100, 114, 101, 102>> -> parse_with_min_len(data, 8)       \* "dref"
      [] box_type = <<115, 116, 115, 100>> -> SampleDescriptionBox_parse(data)  \* "stsd"
      [] box_type = <<115, 116, 116, 115>> -> parse_with_min_len(data, 8)       \* "stts"
      [] box_type = <<115, 116, 115, 99>>  -> parse_with_min_len(data, 8)       \* "stsc"
      [] box_type = <<115, 116, 115, 122>> -> parse_with_min_len(data, 12)      \* "stsz"
      [] box_type = <<115, 116, 99, 111>>  -> parse_with_min_len(data, 8)       \* "stco"
      [] box_type = <<99, 111, 54, 52>>    -> parse_with_min_len(data, 8)       \* "co64"
      [] box_type = <<101, 108, 115, 116>> -> parse_with_min_len(data, 8)       \* "elst"
      [] box_type = <<117, 114, 108, 32>>  -> parse_with_min_len(data, 4)       \* "url "
      [] box_type = <<117, 114, 110, 32>>  -> parse_with_min_len(data, 4)       \* "urn "
      [] box_type = <<99, 104, 97, 112>>   -> parse_with_min_len(data, 4)       \* "chap"
      [] box_type = <<109, 101, 97, 110>>  -> parse_with_min_len(data, 4)       \* "mean"
      [] box_type = <<110, 97, 109, 101>>  -> parse_with_min_len(data, 4)       \* "name"
      [] OTHER -> [status |-> "skip"]

\* Result::ok() followed by .map(IsobmffContent::...).
content_of(r) ==
    CASE r.status = "ok" -> Some(r)
      [] r.status = "unmodelled" -> [some |-> TRUE, val |-> "unmodelled"]
      [] OTHER -> None

(***************************************************************************)
(* itunes_metadata.rs.                                                     *)
(***************************************************************************)
\* ItunesDataType::from_flags: the data type is the last byte of the flags.
ItunesDataType_from_flags(type_byte) ==
    CASE type_byte = 0 -> [kind |-> "Implicit"]
      [] type_byte = 1 -> [kind |-> "Utf8"]
      [] type_byte = 2 -> [kind |-> "Utf16Be"]
      [] type_byte = 13 -> [kind |-> "Jpeg"]
      [] type_byte = 14 -> [kind |-> "Png"]
      [] type_byte = 21 -> [kind |-> "SignedInt"]
      [] type_byte = 22 -> [kind |-> "UnsignedInt"]
      [] OTHER -> [kind |-> "Binary", type_byte |-> type_byte]

RECURSIVE from_utf16_lossy_at(_, _)
\* String::from_utf16_lossy from unit i (one-based): an unpaired surrogate
\* becomes U+FFFD.
from_utf16_lossy_at(units, i) ==
    IF i > Len(units) THEN <<>>
    ELSE IF units[i] \in 55296..56319 /\ i + 1 <= Len(units) /\ units[i + 1] \in 56320..57343
         THEN <<65536 + (units[i] - 55296) * 1024 + (units[i + 1] - 56320)>>
              \o from_utf16_lossy_at(units, i + 2)
    ELSE IF units[i] \in 55296..57343 THEN <<65533>> \o from_utf16_lossy_at(units, i + 1)
    ELSE <<units[i]>> \o from_utf16_lossy_at(units, i + 1)

\* payload.chunks_exact(2) read as big-endian u16 units.
utf16_be_units(payload) ==
    [k \in 1..(Len(payload) \div 2) |-> u16_be(payload[2 * k - 1], payload[2 * k])]

\* iN::from_be_bytes(payload) as i64: the 8 bytes of the sign-extended value.
SignExtend(payload) ==
    [k \in 1..(8 - Len(payload)) |-> IF payload[1] >= 128 THEN 255 ELSE 0] \o payload

\* uN::from_be_bytes(payload) as u64: the 8 bytes of the zero-extended value.
ZeroExtend64(payload) == [k \in 1..(8 - Len(payload)) |-> 0] \o payload

\* The track / disk number pair read from payload[2..6].
NumberOfTotal(box_type, payload) ==
    IF box_type = <<116, 114, 107, 110>>                                     \* "trkn"
    THEN [kind |-> "TrackNumber", track |-> u16_be(At(payload, 2), At(payload, 3)),
          total_tracks |-> u16_be(At(payload, 4), At(payload, 5))]
    ELSE [kind |-> "DiskNumber", disk |-> u16_be(At(payload, 2), At(payload, 3)),
          total_disks |-> u16_be(At(payload, 4), At(payload, 5))]

IsTrknOrDisk(box_type) ==
    box_type = <<116, 114, 107, 110>> \/ box_type = <<100, 105, 115, 107>>  \* "trkn", "disk"

\* The match on data_type of ItunesMetadata::parse: Ok(content) or Err.
ItunesContent_of(box_type, data_type, payload) ==
    CASE data_type.kind = "Implicit" ->
           IF IsTrknOrDisk(box_type) /\ Len(payload) >= 6
           THEN Ok(NumberOfTotal(box_type, payload))
           ELSE Ok([kind |-> "Text", text |-> from_utf8_lossy(payload)])
      [] data_type.kind = "Utf8" -> Ok([kind |-> "Text", text |-> from_utf8_lossy(payload)])
      [] data_type.kind = "Utf16Be" ->
           Ok([kind |-> "Text", text |-> from_utf16_lossy_at(utf16_be_units(payload), 1)])
      [] data_type.kind = "SignedInt" ->
           IF Len(payload) \in {1, 2, 4, 8}
           THEN Ok([kind |-> "Integer", value |-> SignExtend(payload)])
           ELSE Err("Invalid signed integer size")
      [] data_type.kind = "UnsignedInt" ->
           IF IsTrknOrDisk(box_type) /\ Len(payload) >= 6
           THEN Ok(NumberOfTotal(box_type, payload))
           ELSE IF Len(payload) \in {1, 2, 4, 8}
           THEN Ok([kind |-> "UnsignedInteger", value |-> ZeroExtend64(payload)])
           ELSE Err("Invalid unsigned integer size")
      [] data_type.kind = "Jpeg" -> Ok([kind |-> "Image", format |-> "JPEG", data_size |-> Len(payload)])
      [] data_type.kind = "Png" -> Ok([kind |-> "Image", format |-> "PNG", data_size |-> Len(payload)])
      [] OTHER -> Ok([kind |-> "Binary", data |-> payload])

\* Ok(ItunesMetadata { data_type, content }) from the content's result.
ItunesMetadata_of(data_type, r) ==
    IF IsOk(r) THEN Ok([data_type |-> data_type, content |-> r.val]) ELSE r

\* itunes_metadata.rs: ItunesMetadata::parse.
ItunesMetadata_parse(box_type, data) ==
    IF Len(data) < 8 THEN Err("iTunes data box too short")
    ELSE ItunesMetadata_of(ItunesDataType_from_flags(At(data, 3)),
                           ItunesContent_of(box_type, ItunesDataType_from_flags(At(data, 3)),
                                            Slice(data, 8, Len(data))))

(***************************************************************************)
(* isobmff/dissector.rs: one iteration of the loop of parse_boxes.  An     *)
(* offset is an integer (every offset the code holds is at most the file's *)
(* length); a box size is a u64, kept as its 8 big-endian bytes.           *)
(***************************************************************************)
\* The header read at current_offset: Ok(box_type, box_size, header_size) or the
\* error of the failed read_exact.
box_header(file, current_offset, end_offset) ==
    IF ~FileCanRead(file, current_offset, 8) THEN Err("Failed to read box header")
    ELSE IF FileSlice(file, current_offset, 4) = <<0, 0, 0, 1>>
    THEN IF ~FileCanRead(file, current_offset + 8, 8) THEN Err("Failed to read extended size")
         ELSE Ok([box_type    |-> box_type_to_string(FileSlice(file, current_offset + 4, 4)),
                  box_size    |-> FileSlice(file, current_offset + 8, 8),
                  header_size |-> 16])
    ELSE IF FileSlice(file, current_offset, 4) = <<0, 0, 0, 0>>
    THEN Ok([box_type    |-> box_type_to_string(FileSlice(file, current_offset + 4, 4)),
             box_size    |-> U64(end_offset - current_offset),
             header_size |-> 8])
    ELSE Ok([box_type    |-> box_type_to_string(FileSlice(file, current_offset + 4, 4)),
             box_size    |-> ZeroExtend(FileSlice(file, current_offset, 4)),
             header_size |-> 8])

\* "content_end - content_start >= n" on u64: when content_end is below
\* content_start the difference wraps to a value of 2^63 or more.
WrappingSubGe(content_end, content_start, n) ==
    IF content_end >= content_start THEN content_end - content_start >= n ELSE TRUE

\* Where the children of a container start: meta skips version and flags, dref
\* version, flags and entry count.
content_start_noskip(box_type, content_start, content_end) == content_start

\* Every container taken for a FullBox: 4 bytes skipped whatever the type.
content_start_fullbox(box_type, content_start, content_end) ==
    IF WrappingSubGe(content_end, content_start, 4) THEN content_start + 4 ELSE content_start

content_start_of(box_type, content_start, content_end) ==
    IF box_type = <<109, 101, 116, 97>> /\ WrappingSubGe(content_end, content_start, 4)       \* "meta"
    THEN content_start + 4
    ELSE IF box_type = <<100, 114, 101, 102>> /\ WrappingSubGe(content_end, content_start, 8)  \* "dref"
    THEN content_start + 8
    ELSE content_start

\* The leaf after its content decoder ran; a decoder's panic ends the program.
leaf_with_content(box, next, r) ==
    IF r.status = "panic" THEN r
    ELSE [status |-> "leaf", box |-> [box EXCEPT !.content = content_of(r)], next |-> next]

\* The else branch of "if isobmff_box.is_container": read and decode the data.
leaf_box(file, current_offset, next, box) ==
    IF ~data_is_read(box.size, box.header_size)
    THEN [status |-> "leaf", box |-> box, next |-> next]
    ELSE IF ~FileCanRead(file, current_offset + box.header_size, data_size(box.size, box.header_size))
    THEN Err("Failed to read box data")
    ELSE leaf_with_content(
             [box EXCEPT !.data = [off |-> current_offset + box.header_size,
                                   len |-> data_size(box.size, box.header_size)]],
             next,
             leaf_content(box.box_type,
                          FileSlice(file, current_offset + box.header_size,
                                    data_size(box.size, box.header_size))))

\* The box made by IsobmffBox::new: a container asks for the call on its
\* children's range, a leaf is complete.
box_body(file, current_offset, next, box) ==
    IF box.is_container
    THEN [status        |-> "container", box |-> box, next |-> next,
          content_start |-> content_start_of(box.box_type, current_offset + box.header_size, next),
          content_end   |-> next]
    ELSE leaf_box(file, current_offset, next, box)

\* "if box_size < header_size".
SizeTooSmall_never(box_size, header_size) == FALSE

SizeTooSmall(box_size, header_size) == U64Lt(box_size, U64(header_size))

\* "if current_offset + box_size > end_offset", sum being current_offset + box_size:
\* the addition panics on overflow in a build with overflow checks and wraps in
\* one without.
box_after_sum(file, current_offset, end_offset, build, h, sum) ==
    IF sum.overflow /\ build = "debug" THEN Panic("attempt to add with overflow")
    ELSE IF U64Lt(U64(end_offset), sum.value) THEN Err("Box extends beyond parent")
    ELSE box_body(file, current_offset, U64ToInt(sum.value),
                  IsobmffBox_new(current_offset, h.box_type, h.box_size, h.header_size))

box_after_header(file, current_offset, end_offset, build, h) ==
    IF ~IsOk(h) THEN h
    ELSE IF SizeTooSmall(h.val.box_size, h.val.header_size) THEN Err("Invalid box size")
    ELSE box_after_sum(file, current_offset, end_offset, build, h.val,
                       U64Add(U64(current_offset), h.val.box_size))

\* One iteration of the while loop up to "boxes.push": an error, a panic, a
\* complete leaf, or a container whose children are still to be parsed.
parse_box(file, current_offset, end_offset, build) ==
    box_after_header(file, current_offset, end_offset, build,
                     box_header(file, current_offset, end_offset))

\* The indexes of the children of type "data".
DataChildren(children) ==
    {i \in 1..Len(children) : children[i].box_type = <<100, 97, 116, 97>>}

FirstIndex(S) == CHOOSE i \in S : \A j \in S : i <= j

\* A caller that stores the outcome of the decoder whatever it is.
itunes_content_of_any(r) == IF IsOk(r) THEN Some(r.val) ELSE Some(r)

\* itunes_content after ItunesMetadata::parse: an error is ignored.
itunes_content_of(r) == IF IsOk(r) THEN Some(r.val) ELSE None

\* The container once its children are parsed: the first "data" child, if its
\* data is not empty, gives the iTunes metadata of a metadata box.
with_children_on_child(file, box, children) ==
    IF /\ is_itunes_metadata_box(box.box_type)
       /\ DataChildren(children) # {}
       /\ children[FirstIndex(DataChildren(children))].data.len > 0
    THEN [box EXCEPT !.children =
             [children EXCEPT ![FirstIndex(DataChildren(children))].itunes_content =
                 itunes_content_of(ItunesMetadata_parse(box.box_type,
                     FileSlice(file, children[FirstIndex(DataChildren(children))].data.off,
                               children[FirstIndex(DataChildren(children))].data.len)))]]
    ELSE [box EXCEPT !.children = children]

with_children(file, box, children) ==
    IF /\ is_itunes_metadata_box(box.box_type)
       /\ DataChildren(children) # {}
       /\ children[FirstIndex(DataChildren(children))].data.len > 0
    THEN [box EXCEPT !.children = children,
                     !.itunes_content =
                         itunes_content_of(ItunesMetadata_parse(box.box_type,
                             FileSlice(file, children[FirstIndex(DataChildren(children))].data.off,
                                       children[FirstIndex(DataChildren(children))].data.len)))]
    ELSE [box EXCEPT !.children = children]

\* "if depth > 20".
MAX_DEPTH == 20

DepthExceeded_late(depth) == depth > MAX_DEPTH + 1

DepthExceeded(depth) == depth > MAX_DEPTH

\* The activation record of a call of parse_boxes: its arguments, its locals
\* boxes and current_offset, and, while it waits for the call on a container's
\* children, that container (pending) and the offset after it (pending_next).
NewFrame(start_offset, end_offset, depth) ==
    [start_offset |-> start_offset, end_offset |-> end_offset, depth |-> depth,
     current_offset |-> start_offset, boxes |-> <<>>, pending |-> <<>>, pending_next |-> 0]

\* What the caller of the outermost parse_boxes receives for Err(msg): the
\* Result's Err variant holds the message only.
ErrResult_keep(msg, stack) == [status |-> "err", msg |-> msg, boxes |-> stack[1].boxes]

ErrResult(msg, stack) == [status |-> "err", msg |-> msg]

\* The box decoder is followed until it has accepted this many boxes (in a
\* build where the offset wraps the loop need not end).
MaxBoxCount == 30

(***************************************************************************)
(* isobmff/dissector.rs: parse_boxes as a machine over its activation      *)
(* records.                                                                *)
(***************************************************************************)
WithTop(stack, frame) == [stack EXCEPT ![Len(stack)] = frame]

\* An Err returned through every "?" up to dissect_with_options, or a panic:
\* every activation record, and the boxes vector in it, is dropped.
BoxFail(r, stack) ==
    /\ b_result' = IF r.status = "err" THEN ErrResult(r.msg, stack) ELSE r
    /\ b_unwound' = [i \in 1..Len(stack) |-> stack[i].boxes]
    /\ b_stack' = <<>>
    /\ b_pc' = "done"

\* The entry of parse_boxes(file, start_offset, end_offset, depth).
BoxCall(stack, start_offset, end_offset, depth) ==
    IF DepthExceeded(depth)
    THEN BoxFail(Err("Maximum box nesting depth exceeded"), stack)
    ELSE /\ b_stack' = Append(stack, NewFrame(start_offset, end_offset, depth))
         /\ b_pc' = "run"
         /\ UNCHANGED <<b_result, b_unwound>>

\* dissect_with_options: parse_boxes(&mut file, 0, file_size, 0).
BoxStart ==
    /\ b_pc = "start"
    /\ BoxCall(<<>>, 0, FileLen(b_file), 0)
    /\ UNCHANGED <<b_file, b_build, b_count>>

BoxStepOutcome(top, r) ==
    CASE r.status \in {"err", "panic"} ->
           /\ BoxFail(r, b_stack)
           /\ UNCHANGED b_count
      [] r.status = "leaf" ->
           /\ b_stack' = WithTop(b_stack, [top EXCEPT !.boxes = Append(@, r.box),
                                                      !.current_offset = r.next])
           /\ b_count' = b_count + 1
           /\ UNCHANGED <<b_result, b_unwound, b_pc>>
      [] r.status = "container" ->
           /\ BoxCall(WithTop(b_stack, [top EXCEPT !.pending = <<r.box>>, !.pending_next = r.next]),
                      r.content_start, r.content_end, top.depth + 1)
           /\ b_count' = b_count + 1

\* One iteration of "while current_offset < end_offset" in the innermost call.
BoxStep ==
    /\ b_pc = "run"
    /\ b_stack[Len(b_stack)].current_offset < b_stack[Len(b_stack)].end_offset
    /\ b_count < MaxBoxCount
    /\ BoxStepOutcome(b_stack[Len(b_stack)],
                      parse_box(b_file, b_stack[Len(b_stack)].current_offset,
                                b_stack[Len(b_stack)].end_offset, b_build))
    /\ UNCHANGED <<b_file, b_build>>

\* The caller's record once the call on its pending container returned children:
\* "boxes.push(isobmff_box); current_offset += box_size".
AfterChildren(file, parent, children) ==
    [parent EXCEPT !.boxes = Append(@, with_children(file, parent.pending[1], children)),
                   !.current_offset = parent.pending_next,
                   !.pending = <<>>,
                   !.pending_next = 0]

\* The loop of the innermost call ends: Ok(boxes) goes to its caller.
BoxReturn ==
    /\ b_pc = "run"
    /\ b_stack[Len(b_stack)].current_offset >= b_stack[Len(b_stack)].end_offset
    /\ IF Len(b_stack) = 1
       THEN /\ b_result' = [status |-> "ok", boxes |-> b_stack[1].boxes]
            /\ b_stack' = <<>>
            /\ b_pc' = "done"
       ELSE /\ b_stack' = Append(SubSeq(b_stack, 1, Len(b_stack) - 2),
                                 AfterChildren(b_file, b_stack[Len(b_stack) - 1],
                                               b_stack[Len(b_stack)].boxes))
            /\ UNCHANGED <<b_result, b_pc>>
    /\ UNCHANGED <<b_file, b_build, b_count, b_unwound>>

(***************************************************************************)
(* Inputs of the box decoder.                                              *)
(***************************************************************************)
\* How many containers the longest chain nests.
MaxChain == 21

\* How many boxes precede the box under examination at the top level.
MaxTopBoxes == 1

T_free == <<102, 114, 101, 101>>
T_moov == <<109, 111, 111, 118>>
T_meta == <<109, 101, 116, 97>>
T_ilst == <<105, 108, 115, 116>>
T_nam  == <<169, 110, 97, 109>>
T_data == <<100, 97, 116, 97>>
T_trkn == <<116, 114, 107, 110>>
T_disk == <<100, 105, 115, 107>>
T_tmpo == <<116, 109, 112, 111>>
T_covr == <<99, 111, 118, 114>>
T_tkhd == <<116, 107, 104, 100>>
T_mvhd == <<109, 118, 104, 100>>
T_mdhd == <<109, 100, 104, 100>>
T_ftyp == <<102, 116, 121, 112>>
T_hdlr == <<104, 100, 108, 114>>
T_mdat == <<109, 100, 97, 116>>
T_udta == <<117, 100, 116, 97>>
T_dinf == <<100, 105, 110, 102>>
T_dref == <<100, 114, 101, 102>>
T_url == <<117, 114, 108, 32>>

U32(n) == <<(n \div 16777216) % 256, (n \div 65536) % 256, (n \div 256) % 256, n % 256>>

Zeros(n) == [i \in 1..n |-> 0]

\* A well-formed box, a box with the given 32-bit size field, a box with an
\* extended size.
Bx(type, body) == U32(8 + Len(body)) \o type \o body
Raw(size4, type, body) == size4 \o type \o body
Ext(type, size8, body) == <<0, 0, 0, 1>> \o type \o size8 \o body

U64_MAX == <<255, 255, 255, 255, 255, 255, 255, 255>>
U64_MINUS_8 == <<255, 255, 255, 255, 255, 255, 255, 248>>

\* An iTunes item in an ilst: the item's box around one "data" box.
Item(type, data_body) == Bx(T_ilst, Bx(type, Bx(T_data, data_body)))

RECURSIVE Chain(_)
\* n containers nested one inside the other.
Chain(n) == IF n = 0 THEN <<>> ELSE Bx(T_moov, Chain(n - 1))

RECURSIVE ChainAround(_, _)
\* n containers nested around the bytes inner.
ChainAround(n, inner) == IF n = 0 THEN inner ELSE Bx(T_moov, ChainAround(n - 1, inner))

BoxPrefixMenu ==
    { Bx(T_free, <<>>), Bx(T_free, <<0>>), Bx(T_moov, Bx(T_free, <<>>)) }

BoxProbeSizes ==
    { Bx(T_free, <<>>), Bx(T_free, <<1, 2, 3, 4>>),
      Raw(<<0, 0, 0, 2>>, T_free, <<>>), Raw(<<0, 0, 0, 4>>, T_free, <<>>),
      Raw(<<0, 0, 0, 7>>, T_free, <<>>), Raw(<<0, 0, 0, 7>>, T_moov, <<>>),
      Ext(T_free, U64(0), <<>>), Ext(T_free, U64(15), <<>>), Ext(T_free, U64(16), <<>>),
      Ext(T_free, U64(17), <<0>>), Ext(T_moov, U64(15), <<>>), Ext(T_moov, U64(16), <<>>),
      Ext(T_moov, U64(24), Bx(T_free, <<>>)),
      Raw(<<0, 0, 0, 0>>, T_free, <<>>), Raw(<<0, 0, 0, 0>>, T_free, <<5, 6>>),
      Raw(<<0, 0, 0, 0>>, T_moov, Bx(T_free, <<>>)),
      Raw(<<0, 0, 0, 100>>, T_free, <<>>), Raw(<<255, 255, 255, 255>>, T_free, <<>>),
      <<0, 0, 0, 8>>, <<0, 0, 0, 1>> \o T_free \o <<0, 0, 0>>,
      Ext(T_free, U64_MAX, <<>>), Ext(T_moov, U64_MAX, <<>>), Ext(T_meta, U64_MAX, <<>>),
      Ext(T_free, U64_MINUS_8, <<>>) }

BoxProbeContainers ==
    { Bx(T_moov, <<>>),
      Bx(T_moov, Bx(T_free, <<>>) \o Bx(T_free, <<9>>)),
      Bx(T_moov, Bx(T_free, <<>>) \o Raw(<<0, 0, 0, 4>>, T_free, <<>>)),
      Bx(T_moov, Bx(T_free, <<>>) \o Raw(<<0, 0, 0, 100>>, T_free, <<>>)),
      Bx(T_moov, Bx(T_free, <<>>) \o Bx(T_moov, Raw(<<0, 0, 0, 4>>, T_free, <<>>))),
      Bx(T_moov, <<0, 0, 0, 0>>),
      Bx(T_moov, Raw(<<0, 0, 0, 0>>, T_free, <<>>)),
      Bx(T_moov, Bx(T_free, <<>>) \o Ext(T_free, U64_MAX, <<>>)),
      Bx(T_meta, <<>>), Bx(T_meta, <<0, 0>>), Bx(T_meta, <<0, 0, 0, 0>>),
      Bx(T_meta, <<0, 0, 0, 0>> \o Bx(T_free, <<>>)),
      Bx(T_meta, Bx(T_free, <<>>)),
      Bx(T_meta, <<0, 0, 0, 0>> \o Item(T_nam, <<0, 0, 0, 1, 0, 0, 0, 0, 72, 105>>)) }

BoxProbeItems ==
    { Item(T_nam, <<0, 0, 0, 1, 0, 0, 0, 0, 72, 105>>),
      Item(T_nam, <<0, 0, 0, 1, 0, 0, 0, 0, 72, 255>>),
      Item(T_nam, <<0, 0, 0, 2, 0, 0, 0, 0, 0, 72, 216, 0, 0, 105, 7>>),
      Item(T_nam, <<0, 0, 0, 2, 0, 0, 0, 0, 216, 61, 222, 0>>),
      Item(T_nam, <<0, 0, 0, 99, 0, 0, 0, 0, 1, 2>>),
      Item(T_nam, <<0, 0, 0, 1>>),
      Item(T_nam, <<>>),
      Bx(T_nam, Bx(T_free, <<>>) \o Bx(T_data, <<0, 0, 0, 1, 0, 0, 0, 0, 72>>)),
      Bx(T_nam, Bx(T_data, <<>>) \o Bx(T_data, <<0, 0, 0, 1, 0, 0, 0, 0, 72>>)),
      Item(T_trkn, <<0, 0, 0, 0, 0, 0, 0, 0, 0, 0, 0, 3, 0, 12, 0, 0>>),
      Item(T_trkn, <<0, 0, 0, 0, 0, 0, 0, 0, 65, 66>>),
      Item(T_disk, <<0, 0, 0, 22, 0, 0, 0, 0, 0, 0, 0, 1, 0, 2>>),
      Item(T_disk, <<0, 0, 0, 22, 0, 0, 0, 0, 0, 7>>),
      Item(T_tmpo, <<0, 0, 0, 21, 0, 0, 0, 0, 255, 120>>),
      Item(T_tmpo, <<0, 0, 0, 21, 0, 0, 0, 0, 1, 2, 3>>),
      Item(T_tmpo, <<0, 0, 0, 22, 0, 0, 0, 0, 200>>),
      Item(T_tmpo, <<0, 0, 0, 22, 0, 0, 0, 0, 1, 2, 3>>),
      Item(T_covr, <<0, 0, 0, 13, 0, 0, 0, 0, 255, 216, 255, 224>>),
      Item(T_covr, <<0, 0, 0, 14, 0, 0, 0, 0, 137, 80>>),
      Bx(T_moov, Bx(T_udta, Bx(T_nam,
          Bx(T_data, <<0, 0, 0, 1, 0, 0, 0, 0, 84, 105, 116, 108, 101>>)))),
      Bx(T_nam, Bx(T_data, <<>>) \o Bx(T_data, <<0, 0, 0, 1, 0, 0, 0, 0, 72>>)),
      Item(T_trkn, <<0, 0, 0, 1, 0, 0, 0, 0, 65, 66, 67, 68, 69, 70>>),
      Bx(T_ilst, Bx(T_tmpo, Bx(T_data, <<0, 0, 0, 21, 0, 0, 0, 0, 1, 2, 3>>))
                 \o Bx(T_nam, Bx(T_data, <<0, 0, 0, 1, 0, 0, 0, 0, 72, 105>>))) }

BoxProbeLeaves ==
    { Bx(T_tkhd, Zeros(76)), Bx(T_tkhd, Zeros(84)), Bx(T_tkhd, Zeros(10)),
      Bx(T_mvhd, Zeros(100)), Bx(T_mdhd, Zeros(24)),
      Bx(T_ftyp, <<105, 115, 111, 109, 0, 0, 2, 0, 109, 112, 52, 49, 1, 2>>),
      Bx(T_ftyp, <<1, 2>>), Bx(T_hdlr, Zeros(4)),
      Bx(T_dref, <<0, 0, 0, 0, 0, 0, 0, 1>> \o Bx(T_url, <<0, 0, 0, 1>>)),
      Bx(T_dinf, Bx(T_dref, <<0, 0, 0, 0, 0, 0, 0, 1>> \o Bx(T_url, <<0, 0, 0, 1>>))),
      Bx(T_dref, <<0, 0, 0, 0, 0, 0, 0, 0>>), Bx(T_dref, <<0, 0, 0, 0>>) }

BoxProbeMenu == BoxProbeSizes \cup BoxProbeContainers \cup BoxProbeItems \cup BoxProbeLeaves

BoxTailMenu == { <<>>, Bx(T_free, <<>>) }

\* Leaves at and around the 1 MiB cap on the data that is read, their payload zeros.
BoxLargeFiles ==
    { [head |-> U32(8 + LEAF_DATA_CAP) \o T_mdat, pad |-> LEAF_DATA_CAP],
      [head |-> U32(8 + LEAF_DATA_CAP + 1) \o T_mdat, pad |-> LEAF_DATA_CAP + 1],
      [head |-> Bx(T_free, <<>>) \o U32(8 + LEAF_DATA_CAP) \o T_mdat, pad |-> LEAF_DATA_CAP - 1],
      [head |-> U32(24 + LEAF_DATA_CAP + 1) \o T_nam \o U32(16 + LEAF_DATA_CAP + 1) \o T_data
                    \o <<0, 0, 0, 1, 0, 0, 0, 0>>,
       pad  |-> LEAF_DATA_CAP + 1] }

BoxFiles ==
    { [head |-> Concat(p) \o q \o t, pad |-> 0] :
          p \in SeqsUpTo(BoxPrefixMenu, MaxTopBoxes), q \in BoxProbeMenu, t \in BoxTailMenu }
    \cup { [head |-> Chain(n), pad |-> 0] : n \in 0..MaxChain }
    \cup { [head |-> ChainAround(n, Bx(T_free, <<>>)), pad |-> 0] : n \in 0..MaxChain }
    \cup BoxLargeFiles

BoxBuilds == {"debug", "release"}

(***************************************************************************)
(* Inputs of the tag decoder: files made of a tag header and a buffer that *)
(* concatenates frames drawn from a menu.                                  *)
(***************************************************************************)
MaxUnsyncLen == 5

MaxHdrLen == 100

MaxTagPrefix == 1

\* The four synchsafe bytes of n < 2^28.
Synchsafe(n) == <<(n \div 2097152) % 128, (n \div 16384) % 128, (n \div 128) % 128, n % 128>>

\* The bytes of a frame: id, four size bytes, zero flags, payload.
Fr(id, size4, payload) == id \o size4 \o <<0, 0>> \o payload

\* The size bytes of n < 128, the same in both size encodings.
Sz(n) == <<0, 0, 0, n>>

F_TIT2 == <<84, 73, 84, 50>>

F_COMM == <<67, 79, 77, 77>>

F_XXXX == <<88, 88, 88, 88>>

\* Frames that decode (or are skipped) and let the loop go on.
TagPrefixMenu ==
    { Fr(F_TIT2, Sz(3), <<0, 72, 105>>),                         \* TIT2 "Hi"
      Fr(<<80, 82, 73, 86>>, Sz(2), <<1, 2>>),                   \* PRIV
      Fr(F_XXXX, Sz(1), <<9>>),                                  \* unknown id, size fits
      Fr(F_TIT2, Sz(0), <<>>),                                   \* zero size
      <<0, 0, 0, 6, 0, 0, 0, 0, 0, 0>> }                         \* extended header / padding

\* The frame under test.
TagProbeMenu ==
    TagPrefixMenu \cup
    { Fr(F_TIT2, Sz(2), <<4, 65>>),                              \* unknown encoding byte
      Fr(F_COMM, Sz(7), <<0, 101, 110, 103, 0, 72, 105>>),       \* COMM eng "" "Hi"
      Fr(F_TIT2, Sz(1), <<0>>),                                  \* payload too short
      Fr(F_TIT2, Sz(3), <<3, 65, 66>>),                          \* UTF-8: not valid for v2.3
      Fr(F_TIT2, Sz(4), <<1, 0, 65, 66>>),                       \* UTF-16 of odd length
      Fr(F_TIT2, Sz(5), <<1, 216, 0, 0, 65>>),                   \* unpaired surrogate
      Fr(F_TIT2, Sz(5), <<1, 255, 254, 65, 0>>),                 \* UTF-16 LE BOM "A"
      Fr(F_COMM, Sz(4), <<0, 101, 110, 103>>),                   \* COMM too short
      Fr(<<65, 80, 73, 67>>, Sz(3), <<0, 97, 98>>),              \* APIC, MIME unterminated
      Fr(<<65, 80, 73, 67>>, Sz(6), <<0, 97, 0, 3, 0, 7>>),      \* APIC, valid
      Fr(<<85, 70, 73, 68>>, Sz(2), <<97, 98>>),                 \* UFID unterminated
      Fr(<<84, 89, 69, 82>>, Sz(2), <<0, 49>>),                  \* TYER: v2.3 only
      Fr(<<84, 68, 82, 67>>, Sz(2), <<0, 49>>),                  \* TDRC: v2.4 only
      Fr(<<84, 88, 88, 88>>, Sz(4), <<0, 97, 0, 98>>),           \* TXXX
      Fr(<<87, 88, 88, 88>>, Sz(4), <<2, 0, 0, 104>>),           \* WXXX, UTF-16BE
      Fr(<<87, 67, 79, 77>>, Sz(2), <<104, 105>>),               \* WCOM
      Fr(F_XXXX, Sz(100), <<>>),                                 \* unknown id, size too big
      Fr(F_XXXX, Sz(0), <<>>),                                   \* unknown id, zero size
      Fr(F_TIT2, Sz(100), <<0, 65>>),                            \* size exceeds the buffer
      Fr(F_TIT2, <<128, 0, 0, 2>>, <<0, 65>>),                   \* size 2^31+2 / synchsafe 2
      Fr(F_TIT2, Sz(3), <<0, 255, 0, 65>>),                      \* an unsynchronized payload
      Fr(<<67, 72, 65, 80>>, Sz(30),                             \* CHAP with one sub-frame
         <<99, 0, 0, 0, 0, 0, 0, 0, 0, 1, 255, 255, 255, 255, 255, 255, 255, 255>>
         \o Fr(F_TIT2, Sz(2), <<0, 65>>)),
      Fr(<<67, 72, 65, 80>>, Sz(3), <<99, 0, 0>>),               \* CHAP too short
      Fr(<<67, 84, 79, 67>>, Sz(6), <<116, 0, 3, 1, 99, 0>>),    \* CTOC with one child id
      Fr(<<67, 84, 79, 67>>, Sz(5), <<116, 0, 3, 1, 99>>) }      \* CTOC, child unterminated

\* What follows the frame under test.
TagTailMenu ==
    { <<>>,
      Fr(F_TIT2, Sz(2), <<0, 66>>),
      <<0, 0, 0, 0, 0, 0, 0, 0, 0, 0>> }


TagBuffers ==
    { Concat(pre) \o probe \o tail :
        pre \in SeqsUpTo(TagPrefixMenu, MaxTagPrefix), probe \in TagProbeMenu, tail \in TagTailMenu }

\* A file: the 10-byte tag header, the tag data, then audio data.
TagFile(major, flags, size4, rest) == <<73, 68, 51, major, 0, flags>> \o size4 \o rest

\* A frame whose size bytes read 256 as a plain integer and 128 as a synchsafe one,
\* with a payload of 128 bytes.
TagLongFrame == Fr(<<80, 82, 73, 86>>, <<0, 0, 1, 0>>, [i \in 1..128 |-> 65])

\* A CTOC frame whose sub-frame is a CHAP frame whose sub-frame is a TIT2 frame.
TagNested ==
    Fr(<<67, 84, 79, 67>>, Sz(44),
       <<116, 0, 3, 0>>
       \o Fr(<<67, 72, 65, 80>>, Sz(30),
              <<99, 0, 0, 0, 0, 0, 0, 0, 0, 1, 255, 255, 255, 255, 255, 255, 255, 255>>
              \o Fr(F_TIT2, Sz(2), <<0, 65>>)))

\* A CHAP frame whose payload reads as a TIT2 frame header from its first byte:
\* element id "TIT2", start time 00 00 02 00, and a TIT2 sub-frame after the times.
TagChapterNamedTIT2 ==
    Fr(<<67, 72, 65, 80>>, Sz(33),
       F_TIT2 \o <<0, 0, 0, 2, 0, 0, 0, 0, 4, 0, 0, 0, 8, 0, 0, 0, 9>>
       \o Fr(F_TIT2, Sz(2), <<0, 66>>))

\* Files whose header and data disagree, or that carry no usable tag.
TagSpecialFiles ==
    { <<>>,                                                       \* empty file
      <<73, 68, 51, 4, 0>>,                                       \* shorter than a header
      <<255, 251, 144, 0, 0, 0, 0, 0, 0, 0, 0, 0>>,               \* MPEG audio, no tag
      TagFile(2, 0, Sz(12), Fr(F_TIT2, Sz(2), <<0, 65>>)),        \* version 2.2
      TagFile(3, 0, Sz(12), Fr(F_TIT2, Sz(2), <<0, 65>>)),
      TagFile(4, 0, Sz(12), Fr(F_TIT2, Sz(2), <<0, 65>>)),
      TagFile(3, 0, Sz(0), <<>>),                                 \* declared size 0
      TagFile(4, 0, Sz(40), Fr(F_TIT2, Sz(2), <<0, 65>>)),        \* declared size > file
      TagFile(3, 0, Sz(12), Fr(F_TIT2, Sz(2), <<0, 65>>) \o <<255, 251, 144, 0>>),
      TagFile(4, 0, <<128, 0, 0, 12>>, Fr(F_TIT2, Sz(2), <<0, 65>>)),  \* size byte MSB set
      TagFile(4, 64, Sz(3), <<0, 0, 0>>),                         \* extended header cut short
      TagFile(3, 64, Sz(3), <<0, 0, 0>>),
      TagFile(3, 64, Sz(19), <<0, 0, 0, 129, 0>> \o Fr(F_TIT2, Sz(4), <<0, 65, 66, 67>>)),
      TagFile(4, 64, Sz(19), <<0, 0, 0, 129, 0>> \o Fr(F_TIT2, Sz(4), <<0, 65, 66, 67>>)),
                                                                  \* extended size 129 / synchsafe 1
      TagFile(3, 0, <<127, 127, 127, 127>>, <<>>),                \* 2^28 - 1 bytes declared, none there
      TagFile(4, 0, <<127, 127, 127, 127>>, <<>>),
      TagFile(3, 0, Sz(54), TagNested),                           \* CTOC > CHAP > TIT2
      TagFile(4, 0, Sz(54), TagNested),
      TagFile(3, 0, Sz(43), TagChapterNamedTIT2),
      TagFile(4, 0, Sz(43), TagChapterNamedTIT2),
      TagFile(3, 0, <<0, 0, 1, 10>>, TagLongFrame),
      TagFile(4, 0, <<0, 0, 1, 10>>, TagLongFrame) }

TagFlags == {0, 64, 128, 192}

(***************************************************************************)
(* Specifications.                                                         *)
(***************************************************************************)
UnsyncIdle ==
    u_data = <<>> /\ u_first = <<>> /\ u_second = <<>> /\ u_pass = 0

HdrIdle ==
    h_kind = "none" /\ h_data = <<>> /\ h_res = [status |-> "none"]

DispIdle ==
    /\ d_file = <<>> /\ d_cursor = 0 /\ d_log = <<>> /\ d_out = <<>>
    /\ d_chosen = "none" /\ d_pc = "idle"

TagIdle ==
    /\ t_version = 0 /\ t_show = FALSE /\ t_file = <<>> /\ t_cursor = 0 /\ t_flags = 0
    /\ t_tag_size = 0 /\ t_alloc = 0 /\ t_buffer = <<>> /\ t_pos = 0 /\ t_frames = <<>>
    /\ t_last = "none" /\ t_pc = "idle"

BoxIdle ==
    /\ b_file = [head |-> <<>>, pad |-> 0] /\ b_build = "none" /\ b_stack = <<>>
    /\ b_result = [status |-> "none"] /\ b_count = 0 /\ b_unwound = <<>> /\ b_pc = "idle"

SynchIdle ==
    s_bytes = <<>> /\ s_res = 0 /\ s_done = FALSE

ProbeIdle ==
    p_header = <<>> /\ p_res = FALSE /\ p_done = FALSE

\* ---- remove_unsynchronization, applied to its input and again to its output.
UnsyncBytes == {0, 255, 65}

UnsyncFirstPass ==
    /\ u_pass = 0
    /\ u_first' = remove_unsynchronization(u_data)
    /\ u_pass' = 1
    /\ UNCHANGED <<u_data, u_second>>

UnsyncSecondPass ==
    /\ u_pass = 1
    /\ u_second' = remove_unsynchronization(u_first)
    /\ u_pass' = 2
    /\ UNCHANGED <<u_data, u_first>>

InitUnsync ==
    /\ u_data \in SeqsUpTo(UnsyncBytes, MaxUnsyncLen)
    /\ u_first = <<>> /\ u_second = <<>> /\ u_pass = 0
    /\ HdrIdle /\ DispIdle /\ TagIdle /\ BoxIdle /\ SynchIdle /\ ProbeIdle

NextUnsync ==
    \/ UnsyncFirstPass /\ UNCHANGED <<hdrVars, dispVars, tagVars, boxVars, synchVars, probeVars>>
    \/ UnsyncSecondPass /\ UNCHANGED <<hdrVars, dispVars, tagVars, boxVars, synchVars, probeVars>>

SpecUnsync == InitUnsync /\ [][NextUnsync]_vars

\* ---- the tkhd / mvhd / mdhd decoders on payloads of every length and version.
HdrVersions == {0, 1, 2}

\* A payload of the given length whose version byte is version.
HdrPayload(len, version) == [i \in 1..len |-> IF i = 1 THEN version ELSE 0]

HdrParse ==
    /\ h_res.status = "none"
    /\ h_res' = HeaderBox_parse(h_kind, h_data)
    /\ UNCHANGED <<h_kind, h_data>>

InitHdr ==
    /\ h_kind \in {"tkhd", "mvhd", "mdhd"}
    /\ h_data \in {HdrPayload(len, v) : len \in 0..MaxHdrLen, v \in HdrVersions}
    /\ h_res = [status |-> "none"]
    /\ UnsyncIdle /\ DispIdle /\ TagIdle /\ BoxIdle /\ SynchIdle /\ ProbeIdle

NextHdr == HdrParse /\ UNCHANGED <<unsyncVars, dispVars, tagVars, boxVars, synchVars, probeVars>>

SpecHdr == InitHdr /\ [][NextHdr]_vars

\* ---- the stsd decoder on payloads with well-formed and malformed entries.
MaxStsdEntries == 2

\* A sample entry: its declared size, its format "mp4a" or "avc1", and its body.
StsdEntryMenu ==
    { U32(sz) \o fmt \o body :
        sz \in {0, 1, 8, 12},
        fmt \in {<<109, 112, 52, 97>>, <<97, 118, 99, 49>>},
        body \in {<<>>, <<0, 0, 0, 0>>} }
    \cup { <<255, 255, 255, 255, 109, 112, 52, 97>>, <<0, 0, 0, 11, 109, 112, 52>> }

StsdPayloads ==
    { <<v, 0, 0, 0>> \o U32(n) \o Concat(es) :
        v \in {0, 1}, n \in {0, 1, 2, 3, 5}, es \in SeqsUpTo(StsdEntryMenu, MaxStsdEntries) }
    \cup { Slice(<<0, 0, 0, 0, 0, 0, 0, 1>>, 0, k) : k \in 0..7 }

StsdParse ==
    /\ h_kind = "stsd"
    /\ h_res.status = "none"
    /\ h_res' = SampleDescriptionBox_parse(h_data)
    /\ UNCHANGED <<h_kind, h_data>>

InitStsd ==
    /\ h_kind = "stsd"
    /\ h_data \in StsdPayloads
    /\ h_res = [status |-> "none"]
    /\ UnsyncIdle /\ DispIdle /\ TagIdle /\ BoxIdle /\ SynchIdle /\ ProbeIdle

NextStsd == StsdParse /\ UNCHANGED <<unsyncVars, dispVars, tagVars, boxVars, synchVars, probeVars>>

SpecStsd == InitStsd /\ [][NextStsd]_vars

\* ---- TextFrame::parse on text-frame payloads: an encoding byte and short data.
MaxTextLen == 5

TextBytes == {0, 65, 254, 255}

TextPayloads ==
    { <<e>> \o d : e \in {0, 1, 2, 3, 9}, d \in SeqsUpTo(TextBytes, MaxTextLen) }
    \cup { <<>>,
           <<0, 72, 101, 108, 108, 111>>,                    \* "Hello", ISO-8859-1
           <<3, 0, 72, 105, 0, 195, 169>>,                   \* UTF-8, leading terminator
           <<1, 255, 254, 0, 0, 255, 254, 72, 0, 105, 0>>,   \* UTF-16: a BOM alone, then "Hi"
           <<2, 0, 0, 0, 72, 0, 0, 0, 105>>,                 \* UTF-16BE, leading terminator
           <<2, 216, 0, 0, 0, 0, 65>> }                      \* UTF-16BE, unpaired surrogate

TextParse ==
    /\ h_kind = "text"
    /\ h_res.status = "none"
    /\ h_res' = TextFrame_parse(h_data)
    /\ UNCHANGED <<h_kind, h_data>>

InitText ==
    /\ h_kind = "text"
    /\ h_data \in TextPayloads
    /\ h_res = [status |-> "none"]
    /\ UnsyncIdle /\ DispIdle /\ TagIdle /\ BoxIdle /\ SynchIdle /\ ProbeIdle

NextText == TextParse /\ UNCHANGED <<unsyncVars, dispVars, tagVars, boxVars, synchVars, probeVars>>

SpecText == InitText /\ [][NextText]_vars

\* ---- the dispatcher on files with every combination of interesting header parts.
DispHeads ==
    { <<73, 68, 51, 3>>, <<73, 68, 51, 4>>, <<73, 68, 51, 2>>,    \* "ID3" + major
      <<255, 251, 144, 0>>, <<255, 224, 0, 0>>,                   \* MPEG frame sync
      <<255, 0, 0, 0>>, <<0, 0, 0, 24>> }

DispTypes ==
    { <<102, 116, 121, 112>>,                                     \* "ftyp"
      <<109, 111, 111, 118>>,                                     \* "moov"
      <<0, 0, 0, 0>> }

DispBrands ==
    { <<105, 115, 111, 109>>,                                     \* "isom"
      <<77, 52, 65, 32>>,                                         \* "M4A "
      <<113, 116, 32, 32>>,                                       \* "qt  "
      <<88, 88, 88, 88>>,                                         \* "XXXX"
      <<105, 115, 111, 55>> }                                     \* "iso7"

DispFiles ==
    { h \o t \o b \o x : h \in DispHeads, t \in DispTypes, b \in DispBrands,
                         x \in {<<>>, <<0, 0, 0, 0>>} }
    \cup { <<>>, <<73, 68, 51, 3, 0>>, <<73, 68, 51, 4, 0, 0, 0, 0, 0, 0, 0>>,
           <<73, 68, 51, 4, 0, 0, 255, 0, 128, 1, 0, 0>>,         \* size bytes with the top bit set
           <<0, 0, 0, 11, 102, 116, 121, 112, 105, 115, 111>> }

InitDispatch ==
    /\ d_file \in DispFiles
    /\ d_cursor = 0 /\ d_log = <<>> /\ d_out = <<>> /\ d_chosen = "none" /\ d_pc = "start"
    /\ UnsyncIdle /\ HdrIdle /\ TagIdle /\ BoxIdle /\ SynchIdle /\ ProbeIdle

NextDispatch ==
    \/ BuildForFile /\ UNCHANGED <<unsyncVars, hdrVars, tagVars, boxVars, synchVars, probeVars>>
    \/ DissectUnknown /\ UNCHANGED <<unsyncVars, hdrVars, tagVars, boxVars, synchVars, probeVars>>
    \/ DissectId3Start /\ UNCHANGED <<unsyncVars, hdrVars, tagVars, boxVars, synchVars, probeVars>>
    \/ DissectIsobmffStart /\ UNCHANGED <<unsyncVars, hdrVars, tagVars, boxVars, synchVars, probeVars>>

SpecDispatch == InitDispatch /\ [][NextDispatch]_vars

\* ---- the tag decoder of either version on every input file.
InitTag ==
    /\ t_version \in {3, 4}
    /\ t_show \in BOOLEAN
    /\ t_file \in { TagFile(t_version, fl, Synchsafe(Len(buf)), buf) :
                      fl \in TagFlags, buf \in TagBuffers } \cup TagSpecialFiles
    /\ t_cursor = 0 /\ t_flags = 0 /\ t_tag_size = 0 /\ t_alloc = 0 /\ t_buffer = <<>>
    /\ t_pos = 0 /\ t_frames = <<>> /\ t_last = "none" /\ t_pc = "start"
    /\ UnsyncIdle /\ HdrIdle /\ DispIdle /\ BoxIdle /\ SynchIdle /\ ProbeIdle

NextTag ==
    \/ TagReadHeader /\ UNCHANGED <<unsyncVars, hdrVars, dispVars, boxVars, synchVars, probeVars>>
    \/ TagReadBuffer /\ UNCHANGED <<unsyncVars, hdrVars, dispVars, boxVars, synchVars, probeVars>>
    \/ TagUnsync /\ UNCHANGED <<unsyncVars, hdrVars, dispVars, boxVars, synchVars, probeVars>>
    \/ TagExtHeader /\ UNCHANGED <<unsyncVars, hdrVars, dispVars, boxVars, synchVars, probeVars>>
    \/ TagFrameStep /\ UNCHANGED <<unsyncVars, hdrVars, dispVars, boxVars, synchVars, probeVars>>
    \/ TagLoopEnd /\ UNCHANGED <<unsyncVars, hdrVars, dispVars, boxVars, synchVars, probeVars>>

SpecTag == InitTag /\ [][NextTag]_vars

\* ---- IsobmffDissector::dissect_with_options: parse_boxes over the whole file.
InitBox ==
    /\ b_file \in BoxFiles
    /\ b_build \in BoxBuilds
    /\ b_stack = <<>> /\ b_result = [status |-> "none"] /\ b_count = 0
    /\ b_unwound = <<>> /\ b_pc = "start"
    /\ UnsyncIdle /\ HdrIdle /\ DispIdle /\ TagIdle /\ SynchIdle /\ ProbeIdle

NextBox ==
    \/ BoxStart /\ UNCHANGED <<unsyncVars, hdrVars, dispVars, tagVars, synchVars, probeVars>>
    \/ BoxStep /\ UNCHANGED <<unsyncVars, hdrVars, dispVars, tagVars, synchVars, probeVars>>
    \/ BoxReturn /\ UNCHANGED <<unsyncVars, hdrVars, dispVars, tagVars, synchVars, probeVars>>

SpecBox == InitBox /\ [][NextBox]_vars

\* ---- decode_synchsafe_int applied to a byte slice.
SynchByteMenu == {0, 1, 64, 127, 128, 129, 255}

SynchInputs == [1..4 -> SynchByteMenu] \cup SeqsUpTo({0, 255}, 3)

SynchDecode ==
    /\ ~s_done
    /\ s_res' = decode_synchsafe_int(s_bytes)
    /\ s_done' = TRUE
    /\ UNCHANGED s_bytes

InitSynch ==
    /\ s_bytes \in SynchInputs
    /\ s_res = 0 /\ s_done = FALSE
    /\ UnsyncIdle /\ HdrIdle /\ DispIdle /\ TagIdle /\ BoxIdle /\ ProbeIdle

NextSynch == SynchDecode /\ UNCHANGED <<unsyncVars, hdrVars, dispVars, tagVars, boxVars, probeVars>>

SpecSynch == InitSynch /\ [][NextSynch]_vars

\* ---- IsobmffDissector::can_handle applied to the first bytes of a file.
ProbeTypeMenu ==
    { <<102, 116, 121, 112>>,      \* "ftyp"
      <<102, 116, 121, 113>>,      \* "ftyq"
      <<109, 111, 111, 118>>,      \* "moov"
      <<102, 116, 121, 255>> }

ProbeOtherBrands ==
    { <<105, 115, 111, 77>>,       \* "isoM"
      <<73, 83, 79, 77>>,          \* "ISOM"
      <<77, 52, 65, 0>>,           \* "M4A\0"
      <<113, 116, 32, 0>>,         \* "qt \0"
      <<105, 115, 111, 255>>,
      <<0, 0, 0, 0>>,
      <<102, 116, 121, 112>> }     \* "ftyp"

ProbeFullHeaders ==
    { <<0, 0, 0, 24>> \o t \o b \o tail :
        t \in ProbeTypeMenu, b \in valid_brands \cup ProbeOtherBrands, tail \in {<<>>, <<0>>, <<0, 0, 2, 0>>} }

ProbeHeaders ==
    ProbeFullHeaders
        \cup { Slice(<<0, 0, 0, 24, 102, 116, 121, 112, 105, 115, 111, 109>>, 0, n) : n \in 0..11 }

ProbeCanHandle ==
    /\ ~p_done
    /\ p_res' = Isobmff_can_handle(p_header)
    /\ p_done' = TRUE
    /\ UNCHANGED p_header

InitProbe ==
    /\ p_header \in ProbeHeaders
    /\ p_res = FALSE /\ p_done = FALSE
    /\ UnsyncIdle /\ HdrIdle /\ DispIdle /\ TagIdle /\ BoxIdle /\ SynchIdle

NextProbe == ProbeCanHandle /\ UNCHANGED <<unsyncVars, hdrVars, dispVars, tagVars, boxVars, synchVars>>

SpecProbe == InitProbe /\ [][NextProbe]_vars

(***************************************************************************)
(* Properties.                                                             *)
(***************************************************************************)
\* data contains an adjacent 0xFF 0x00 pair.
HasStuffedPair(data) ==
    \E i \in 1..(Len(data) - 1) : data[i] = 255 /\ data[i + 1] = 0

\* data contains 0xFF 0x00 0x00.
HasStuffedTriple(data) ==
    \E i \in 1..(Len(data) - 2) : data[i] = 255 /\ data[i + 1] = 0 /\ data[i + 2] = 0

\* C10, as stated: for every byte sequence d, a second pass of
\* remove_unsynchronization over the output of the first changes nothing, and the
\* output of one pass has no adjacent 0xFF 0x00 pair.
C10_IdempotentNoPair ==
    u_pass = 2 => u_second = u_first /\ ~HasStuffedPair(u_first)

\* C10, amended: one pass never lengthens its input; its output has an adjacent
\* 0xFF 0x00 pair exactly when the input contains 0xFF 0x00 0x00; and a second pass
\* changes nothing exactly when the input contains no 0xFF 0x00 0x00.
C10_IdempotentUnlessTriple ==
    /\ u_pass >= 1 =>
         /\ Len(u_first) <= Len(u_data)
         /\ HasStuffedPair(u_first) <=> HasStuffedTriple(u_data)
    /\ u_pass = 2 => (u_second = u_first <=> ~HasStuffedTriple(u_data))

\* C10 witness: both passes ran on an input with a stuffed pair and no triple: the first pass
\* shortened it and the second changed nothing.
C10_Witness ==
    /\ u_pass = 2
    /\ HasStuffedPair(u_data) /\ ~HasStuffedTriple(u_data)
    /\ Len(u_first) < Len(u_data)
    /\ u_second = u_first

\* C8: for every payload length and version byte the tkhd, mvhd and mdhd decoders
\* return a typed value or an Err; none of them reads past the payload and panics.
C8_HeaderDecodersNeverPanic ==
    h_res.status \in {"none", "ok", "err"}

\* The header a built dissector was chosen from.
DispHeader == ReadExact(d_file, 0, 12)

\* C9: once build_for_file has read the 12-byte header, the dissector it returned
\* is ID3v2.3 if that accepts the header, else ID3v2.4 if that accepts, else ISOBMFF
\* if that accepts, else the unknown dissector; and when the unknown dissector has
\* run it has succeeded, printed that the format is unknown, and the only seeks and
\* reads on the file are those of build_for_file.
C9_FirstMatchWins ==
    /\ d_pc \in {"built", "dissecting", "done"} =>
         /\ Len(d_file) >= 12
         /\ d_chosen = CASE Id3v23_can_handle(DispHeader) -> "ID3v2.3"
                         [] Id3v24_can_handle(DispHeader) -> "ID3v2.4"
                         [] Isobmff_can_handle(DispHeader) -> "ISOBMFF"
                         [] OTHER -> "Unknown"
    /\ d_pc = "done" =>
         /\ d_chosen = "Unknown"
         /\ d_out = <<"Unknown format - no suitable dissector available">>
         /\ d_log = <<SeekOp(0), ReadOp(0, 12), SeekOp(0)>>
         /\ d_cursor = 0
    /\ d_chosen = "Unknown" => d_pc \in {"built", "done"}

\* C9 witness: a header that both the ID3v2.3 dissector (through its MPEG sync test) and the
\* ISOBMFF dissector accept was given to the first of them.
C9_Witness ==
    /\ d_pc = "dissecting"
    /\ d_chosen = "ID3v2.3"
    /\ Isobmff_can_handle(DispHeader)

\* The frame at pos of buffer has an allow-listed id and a declared size that
\* exceeds the bytes after its 10-byte header.
OversizeAt(buffer, pos, version_major) ==
    /\ pos + 10 <= Len(buffer)
    /\ is_valid_frame_for_version(Slice(buffer, pos, pos + 4), version_major)
    /\ FrameSizeGt(Slice(buffer, pos + 4, pos + 8), version_major, Len(buffer) - pos - 10)

\* frame lies inside buffer and its payload is the declared_size bytes after its header.
FrameWithin(frame, buffer) ==
    /\ frame.offset + 10 + frame.size <= Len(buffer)
    /\ Len(frame.data) = frame.size
    /\ frame.data = Slice(buffer, frame.offset + 10, frame.offset + 10 + frame.size)

\* a is a prefix of b.
IsPrefix(a, b) == Len(a) <= Len(b) /\ SubSeq(b, 1, Len(a)) = a

\* One step of the tag decoder, as C2 constrains it.
C2_Step ==
    /\ (t_pc = "frames" /\ OversizeAt(t_buffer, t_pos, t_version)) =>
         (t_pc' = "done" /\ t_frames' = t_frames)
    /\ IsPrefix(t_frames, t_frames')
    /\ \A i \in 1..Len(t_frames') : FrameWithin(t_frames'[i], t_buffer')

\* C2: in the frame loop of either version, a frame with an allow-listed id whose
\* declared size exceeds the bytes remaining after its header ends the loop without
\* an error; no step removes or changes a frame decoded earlier; and every decoded
\* frame has offset + 10 + declared_size <= buffer length and a payload of exactly
\* declared_size bytes.
C2_OversizeStopsLoop == [][C2_Step]_vars

\* C2 witness: the loop stopped at a frame that does not fit, after at least one frame was decoded.
C2_Witness ==
    /\ t_pc = "done" /\ t_last = "oversize"
    /\ OversizeAt(t_buffer, t_pos, t_version)
    /\ Len(t_frames) >= 1

\* The frame at pos of buffer is structurally valid: allow-listed id and
\* 0 < declared size <= remaining.
StructurallyValidAt(buffer, pos, version_major) ==
    /\ pos + 10 <= Len(buffer)
    /\ is_valid_frame_for_version(Slice(buffer, pos, pos + 4), version_major)
    /\ ~FrameSizeIsZero(Slice(buffer, pos + 4, pos + 8), version_major)
    /\ ~FrameSizeGt(Slice(buffer, pos + 4, pos + 8), version_major, Len(buffer) - pos - 10)

\* The typed decode of frame's payload fails.
DecodeFails(frame) == ~IsOk(parse_content_result(frame.id, frame.data, t_version))

\* A text information frame whose first payload byte is no text encoding, or an
\* encoding the tag's version does not allow (UTF-16BE and UTF-8 in v2.3).
TextFrameBadEncoding(frame) ==
    /\ frame.id[1] = 84 /\ frame.id # <<84, 88, 88, 88>>
    /\ Len(frame.data) >= 1
    /\ frame.data[1] > (IF t_version = 3 THEN 1 ELSE 3)

\* C4, as stated: every frame of the model whose typed decode failed has Binary content.
C4_FailedDecodeIsBinary ==
    \A i \in 1..Len(t_frames) : DecodeFails(t_frames[i]) => t_frames[i].content = Binary

\* One step of the tag decoder, as the amended C4 constrains it.
C4_Step ==
    (t_pc = "frames" /\ StructurallyValidAt(t_buffer, t_pos, t_version)) =>
        /\ Len(t_frames') = Len(t_frames) + 1
        /\ LET frame == t_frames'[Len(t_frames')]
           IN  /\ frame.offset = t_pos
               /\ frame.id = Slice(t_buffer, t_pos, t_pos + 4)
               /\ FrameWithin(frame, t_buffer)
               /\ DecodeFails(frame) => frame.content = NoContent
               /\ TextFrameBadEncoding(frame) => frame.content = NoContent
               /\ ~DecodeFails(frame) => frame.content # NoContent

\* C4, amended: every structurally valid frame (allow-listed id, 0 < size <=
\* remaining) is added to the model with its raw payload; when its typed content
\* decode fails its parsed content stays absent (it is not the Binary variant).
C4_FailedDecodeLeavesNoContent == [][C4_Step]_vars

\* C4 witness: a kept TIT2 frame whose encoding byte is unknown: payload retained, no content.
C4_Witness ==
    \E i \in 1..Len(t_frames) :
        /\ t_frames[i].id = <<84, 73, 84, 50>>
        /\ t_frames[i].data = <<4, 65>>
        /\ DecodeFails(t_frames[i])
        /\ t_frames[i].content = NoContent

(***************************************************************************)
(* Properties of the box decoder.                                          *)
(***************************************************************************)
BoxOk == b_pc = "done" /\ b_result.status = "ok"

BoxErr(msg) == b_pc = "done" /\ b_result.status = "err" /\ b_result.msg = msg

\* offset + size of a box overflows 64 bits.
Overflows(box) == U64Add(U64(box.offset), box.size).overflow

RECURSIVE TreeWithin(_, _)
\* Every box of the list lies in the range ending at end_offset, and every box
\* below it in its parent's range.
TreeWithin(boxes, end_offset) ==
    \A i \in 1..Len(boxes) :
        /\ ~U64Lt(boxes[i].size, U64(boxes[i].header_size))
        /\ ~Overflows(boxes[i])
        /\ ~U64Lt(U64(end_offset), U64Add(U64(boxes[i].offset), boxes[i].size).value)
        /\ TreeWithin(boxes[i].children, U64ToInt(U64Add(U64(boxes[i].offset), boxes[i].size).value))

\* C1: every box of the tree parse_boxes returns has size >= header_size and
\* ends, offset + size, at or before the end of the enclosing byte range, for
\* every declared size up to 2^64 - 1: a size that overruns the range is never
\* accepted.
C1_BoxesWithinRange == BoxOk => TreeWithin(b_result.boxes, FileLen(b_file))

\* The errors of parse_boxes for a malformed structure.
StructuralErrors ==
    {"Invalid box size", "Box extends beyond parent", "Maximum box nesting depth exceeded"}

\* C3 as stated: after a structural error the result the caller receives holds
\* the boxes parsed before the error.
C3_ErrorKeepsParsedBoxes ==
    (b_pc = "done" /\ b_result.status = "err" /\ b_result.msg \in StructuralErrors)
        => ("boxes" \in DOMAIN b_result /\ b_result.boxes = b_unwound[1])

\* C3, amended: after a structural error the caller receives the error message
\* and nothing else; the boxes parsed before the error are dropped with the
\* calls that held them.
C3_ErrorDropsParsedBoxes ==
    (b_pc = "done" /\ b_result.status = "err")
        => (DOMAIN b_result = {"status", "msg"} /\ b_stack = <<>>)

\* An error below the top level, met after a top-level box and a sibling had
\* been parsed.
C3_Witness ==
    /\ b_pc = "done" /\ b_result.status = "err" /\ b_result.msg \in StructuralErrors
    /\ Len(b_unwound) >= 2 /\ b_unwound[1] # <<>> /\ b_unwound[2] # <<>>

\* The largest number of a non-empty set of numbers.
MaxOf(S) == CHOOSE m \in S : \A x \in S : x <= m

RECURSIVE Height(_)
\* The number of levels of a list of boxes: 0 for no box.
Height(boxes) ==
    IF boxes = <<>> THEN 0
    ELSE 1 + MaxOf({Height(boxes[i].children) : i \in 1..Len(boxes)})

\* The file is a chain of Len(head) / 8 nested containers.
IsChainFile(file) ==
    /\ file.pad = 0
    /\ Len(file.head) % 8 = 0
    /\ Len(file.head) \div 8 <= MaxChain
    /\ file.head = Chain(Len(file.head) \div 8)

\* C5: a chain of N nested containers parses for N <= 20 and fails with the
\* nesting-depth error for N = 21 (and beyond); a box is parsed by a call whose
\* depth is the number of its ancestors, never more than 20, so no box of a
\* returned tree has more than 20 ancestors.
C5_DepthLimit ==
    /\ \A i \in 1..Len(b_stack) : b_stack[i].depth = i - 1 /\ b_stack[i].depth <= 20
    /\ BoxOk => Height(b_result.boxes) <= 21
    /\ (b_pc = "done" /\ IsChainFile(b_file))
          => IF Len(b_file.head) \div 8 <= 20
             THEN BoxOk /\ Height(b_result.boxes) = Len(b_file.head) \div 8
             ELSE BoxErr("Maximum box nesting depth exceeded")

\* The chain of 21 containers has failed.
C5_Witness ==
    /\ b_file = [head |-> Chain(21), pad |-> 0]
    /\ BoxErr("Maximum box nesting depth exceeded")

\* The header at the current offset of the innermost call reads, and declares a
\* size below the header's own.
DeclaresTooSmall ==
    /\ b_pc = "run"
    /\ b_stack[Len(b_stack)].current_offset < b_stack[Len(b_stack)].end_offset
    /\ IsOk(box_header(b_file, b_stack[Len(b_stack)].current_offset, b_stack[Len(b_stack)].end_offset))
    /\ U64Lt(box_header(b_file, b_stack[Len(b_stack)].current_offset,
                        b_stack[Len(b_stack)].end_offset).val.box_size,
             U64(box_header(b_file, b_stack[Len(b_stack)].current_offset,
                            b_stack[Len(b_stack)].end_offset).val.header_size))

C6_Step == DeclaresTooSmall => (b_pc' = "done" /\ b_result' = Err("Invalid box size"))

\* C6: a box whose declared size is smaller than its header makes parse_boxes
\* fail at that box: the step that meets it ends the parse with the invalid-size
\* error, so no box is produced for it and nothing is clamped or skipped.
C6_TooSmallIsError == [][C6_Step]_vars

\* The invalid-size error was returned for a box met at the top level after
\* another box.
C6_Witness ==
    /\ BoxErr("Invalid box size")
    /\ Len(b_unwound) = 1 /\ b_unwound[1] # <<>>

RECURSIVE NoLeafOverCap(_)
\* No leaf of the tree has more data than the cap on what is read.
NoLeafOverCap(boxes) ==
    \A i \in 1..Len(boxes) :
        IF boxes[i].is_container THEN NoLeafOverCap(boxes[i].children)
        ELSE U64Fits(boxes[i].size) /\ data_size(boxes[i].size, boxes[i].header_size) <= LEAF_DATA_CAP

RECURSIVE SumSizes(_, _)
\* The sum of the sizes of the boxes from index i on: its value modulo 2^64
\* and whether it passed 2^64.
SumSizes(boxes, i) ==
    IF i > Len(boxes) THEN [value |-> U64(0), overflow |-> FALSE]
    ELSE [value    |-> U64Add(boxes[i].size, SumSizes(boxes, i + 1).value).value,
          overflow |-> \/ SumSizes(boxes, i + 1).overflow
                       \/ U64Add(boxes[i].size, SumSizes(boxes, i + 1).value).overflow]

\* children's sizes + header_size = size, exactly.
SizesAddUp(box) ==
    /\ ~SumSizes(box.children, 1).overflow
    /\ ~U64Add(SumSizes(box.children, 1).value, U64(box.header_size)).overflow
    /\ U64Add(SumSizes(box.children, 1).value, U64(box.header_size)).value = box.size

RECURSIVE AllSizesAddUp(_)
\* SizesAddUp holds of every container of the tree.
AllSizesAddUp(boxes) ==
    \A i \in 1..Len(boxes) :
        boxes[i].is_container => (SizesAddUp(boxes[i]) /\ AllSizesAddUp(boxes[i].children))

\* C7 as stated: in a successfully parsed tree with no leaf over the cap, the
\* sizes of a container's direct children plus its header_size make its size.
C7_ChildrenFillContainer ==
    (BoxOk /\ NoLeafOverCap(b_result.boxes)) => AllSizesAddUp(b_result.boxes)

\* The version and flags bytes a meta box holds before its children.
MetaSkip(box) ==
    IF /\ box.box_type = <<109, 101, 116, 97>>
       /\ ~U64Lt(box.size, U64(box.header_size + 4))
    THEN 4 ELSE 0

\* children's sizes + header_size + the bytes a meta box skips = size, modulo
\* 2^64; a box whose offset + size passed 2^64 has no children.
SizesAddUpWrapping(box) ==
    IF Overflows(box) THEN box.children = <<>>
    ELSE U64Add(SumSizes(box.children, 1).value, U64(box.header_size + MetaSkip(box))).value = box.size

RECURSIVE AllSizesAddUpWrapping(_)
\* SizesAddUpWrapping holds of every container of the tree.
AllSizesAddUpWrapping(boxes) ==
    \A i \in 1..Len(boxes) :
        boxes[i].is_container
            => (SizesAddUpWrapping(boxes[i]) /\ AllSizesAddUpWrapping(boxes[i].children))

\* C7, amended: in a successfully parsed tree with no leaf over the cap, for a
\* container whose offset + size did not pass 2^64 the sizes of its direct
\* children plus its header_size, plus 4 for a meta box with 4 or more body
\* bytes, make its size in 64-bit wrapping arithmetic; a container whose
\* offset + size passed 2^64 has no children.
C7_ChildrenFillContainerAfterSkip ==
    (BoxOk /\ NoLeafOverCap(b_result.boxes)) => AllSizesAddUpWrapping(b_result.boxes)

\* A meta box with a child was parsed.
C7_Witness ==
    /\ BoxOk /\ NoLeafOverCap(b_result.boxes)
    /\ \E i \in 1..Len(b_result.boxes) :
          /\ b_result.boxes[i].box_type = <<109, 101, 116, 97>>
          /\ b_result.boxes[i].children # <<>>

(***************************************************************************)
(* Properties of decode_synchsafe_int.                                     *)
(***************************************************************************)
RECURSIVE BitAnd(_, _)
\* a & b on non-negative integers, bit by bit.
BitAnd(a, b) ==
    IF a = 0 \/ b = 0 THEN 0
    ELSE (IF a % 2 = 1 /\ b % 2 = 1 THEN 1 ELSE 0) + 2 * BitAnd(a \div 2, b \div 2)

RECURSIVE BitOr(_, _)
\* a | b on non-negative integers, bit by bit.
BitOr(a, b) ==
    IF a = 0 THEN b ELSE IF b = 0 THEN a
    ELSE (IF a % 2 = 1 \/ b % 2 = 1 THEN 1 ELSE 0) + 2 * BitOr(a \div 2, b \div 2)

\* a << n.
Shl(a, n) == a * 2 ^ n

\* (b0 & 0x7F) << 21 | (b1 & 0x7F) << 14 | (b2 & 0x7F) << 7 | (b3 & 0x7F).
SynchsafeValue(b) ==
    BitOr(BitOr(BitOr(Shl(BitAnd(b[1], 127), 21), Shl(BitAnd(b[2], 127), 14)),
                Shl(BitAnd(b[3], 127), 7)),
          BitAnd(b[4], 127))

\* C11: for every 4-byte input decode_synchsafe_int returns
\* (b0&0x7F)<<21 | (b1&0x7F)<<14 | (b2&0x7F)<<7 | (b3&0x7F); for bytes all below
\* 0x80 that is b0<<21 | b1<<14 | b2<<7 | b3; the most significant bit of a byte
\* does not change the result; the result is below 2^28.
C11_SynchsafeDecodes ==
    (s_done /\ Len(s_bytes) = 4) =>
        /\ s_res = SynchsafeValue(s_bytes)
        /\ (\A i \in 1..4 : s_bytes[i] < 128) =>
               s_res = BitOr(BitOr(BitOr(Shl(s_bytes[1], 21), Shl(s_bytes[2], 14)),
                                   Shl(s_bytes[3], 7)), s_bytes[4])
        /\ s_res = decode_synchsafe_int([i \in 1..4 |-> s_bytes[i] % 128])
        /\ s_res >= 0 /\ s_res < 2 ^ 28

\* The decoder ran on bytes with most significant bits set and others not.
C11_Witness ==
    s_done /\ s_bytes = <<129, 127, 255, 1>> /\ s_res = 1 * 2097152 + 127 * 16384 + 127 * 128 + 1

(***************************************************************************)
(* Properties of the iTunes metadata of a box tree.                        *)
(***************************************************************************)
\* The bytes a box declares after its header, where its size is below 2^31.
DeclaredPayload(box) == data_size(box.size, box.header_size)

\* The child is a "data" box declaring 8 or more payload bytes, the low byte of
\* its type tag 0x01.
IsUtf8DataChild(file, child) ==
    /\ child.box_type = <<100, 97, 116, 97>>
    /\ U64Fits(child.size)
    /\ DeclaredPayload(child) >= 8
    /\ FileByte(file, child.offset + child.header_size + 3) = 1

\* The box holds {Utf8, Text(payload[8..])} of the child and the child holds nothing.
TextAttached(file, box, child) ==
    /\ box.itunes_content.some
    /\ box.itunes_content.val =
           [data_type |-> [kind |-> "Utf8"],
            content   |-> [kind |-> "Text",
                           text |-> from_utf8_lossy(FileSlice(file, child.offset + child.header_size + 8,
                                                              DeclaredPayload(child) - 8))]]
    /\ ~child.itunes_content.some

RECURSIVE AnyDataChildAttached(_, _)
\* Every iTunes metadata container of the tree with some UTF-8 "data" child
\* holds that child's text.
AnyDataChildAttached(file, boxes) ==
    \A i \in 1..Len(boxes) :
        /\ is_itunes_metadata_box(boxes[i].box_type) =>
               \A j \in 1..Len(boxes[i].children) :
                   IsUtf8DataChild(file, boxes[i].children[j])
                       => TextAttached(file, boxes[i], boxes[i].children[j])
        /\ AnyDataChildAttached(file, boxes[i].children)

\* C12 as stated: a container of an iTunes metadata type whose "data" child
\* carries 8 or more payload bytes with type tag 0x01 holds {Utf8, Text(payload[8..])}
\* itself, and the "data" child holds no metadata.
C12_DataChildTextOnContainer == BoxOk => AnyDataChildAttached(b_file, b_result.boxes)

RECURSIVE FirstDataChildAttached(_, _)
\* Every iTunes metadata container of the tree whose first "data" child is a
\* UTF-8 one of at most LEAF_DATA_CAP payload bytes holds that child's text; no
\* "data" box holds metadata.
FirstDataChildAttached(file, boxes) ==
    \A i \in 1..Len(boxes) :
        /\ boxes[i].box_type = <<100, 97, 116, 97>> => ~boxes[i].itunes_content.some
        /\ (/\ is_itunes_metadata_box(boxes[i].box_type)
            /\ DataChildren(boxes[i].children) # {}
            /\ IsUtf8DataChild(file, boxes[i].children[FirstIndex(DataChildren(boxes[i].children))])
            /\ DeclaredPayload(boxes[i].children[FirstIndex(DataChildren(boxes[i].children))])
                   <= LEAF_DATA_CAP)
               => TextAttached(file, boxes[i],
                               boxes[i].children[FirstIndex(DataChildren(boxes[i].children))])
        /\ FirstDataChildAttached(file, boxes[i].children)

\* C12, amended: a container of an iTunes metadata type whose first "data"
\* child carries between 8 bytes and 1 MiB of payload with type tag 0x01 holds
\* {Utf8, Text(payload[8..])} itself; a "data" box never holds the metadata.
C12_FirstDataChildTextOnContainer == BoxOk => FirstDataChildAttached(b_file, b_result.boxes)

\* moov > udta > (c)nam > data with payload "Title" was parsed: Text("Title") is on
\* the (c)nam box.
C12_Witness ==
    /\ BoxOk
    /\ b_file.head = Bx(T_moov, Bx(T_udta, Bx(T_nam,
           Bx(T_data, <<0, 0, 0, 1, 0, 0, 0, 0, 84, 105, 116, 108, 101>>))))
    /\ b_result.boxes[1].children[1].children[1].box_type = T_nam
    /\ b_result.boxes[1].children[1].children[1].itunes_content =
           Some([data_type |-> [kind |-> "Utf8"],
                 content |-> [kind |-> "Text", text |-> <<84, 105, 116, 108, 101>>]])
    /\ ~b_result.boxes[1].children[1].children[1].children[1].itunes_content.some

(***************************************************************************)
(* Properties of the ISOBMFF probe.                                        *)
(***************************************************************************)
\* C13: the probe accepts a header exactly when it has 12 or more bytes,
\* bytes 4..7 are "ftyp" and bytes 8..11 are an allow-listed brand; "ftyp"
\* with "isom" is accepted and "ftyp" with a brand outside the list is not.
C13_ProbeAcceptsFtypWithListedBrand ==
    p_done =>
        /\ p_res <=> (/\ Len(p_header) >= 12
                      /\ Slice(p_header, 4, 8) = <<102, 116, 121, 112>>
                      /\ Slice(p_header, 8, 12) \in valid_brands)
        /\ (Len(p_header) >= 12 /\ Slice(p_header, 4, 12) = <<102, 116, 121, 112, 105, 115, 111, 109>>)
               => p_res
        /\ (Len(p_header) >= 12 /\ Slice(p_header, 8, 12) \in ProbeOtherBrands) => ~p_res

\* The probe has rejected "ftyp" followed by a brand outside the allow-list.
C13_Witness ==
    /\ p_done /\ ~p_res
    /\ Len(p_header) >= 12
    /\ Slice(p_header, 4, 8) = <<102, 116, 121, 112>>
    /\ Slice(p_header, 8, 12) = <<73, 83, 79, 77>>

(***************************************************************************)
(* Properties of the buffers the decoders allocate.                        *)
(***************************************************************************)
\* The tag buffer about to be allocated is no longer than what the file holds
\* after the read position.
C14_Step == t_pc = "tag" => t_alloc' <= Len(t_file) - t_cursor

\* C14 (the ID3v2 tag buffer): the buffer is allocated only with a length checked
\* against the file: its length never exceeds the bytes left in the file at the
\* read position.
C14_AllocationWithinFile == [][C14_Step]_vars

(***************************************************************************)
(* Properties of the progress of the frame loop.                           *)
(***************************************************************************)
\* The frame header at the scan position.
IdAtPos == Slice(t_buffer, t_pos, t_pos + 4)

SizeAtPos == Slice(t_buffer, t_pos + 4, t_pos + 8)

\* The declared size at the scan position is above zero and fits what is left of
\* the buffer after the header.
SizeFitsAtPos ==
    /\ SizeAtPos # <<0, 0, 0, 0>>
    /\ IF t_version = 4 THEN decode_synchsafe_int(SizeAtPos) # 0 ELSE TRUE
    /\ ~FrameSizeGt(SizeAtPos, t_version, Len(t_buffer) - t_pos - 10)

\* The loop is about to run an iteration.
InLoop == t_pc = "frames" /\ t_pos + 10 <= Len(t_buffer)

\* One iteration stops the loop or moves the position forward by 10 + size, by 10
\* or by 1, as the id and the size at the position say.
C15_Step ==
    InLoop =>
        \/ /\ t_pc' = "done" /\ t_pos' = t_pos /\ t_frames' = t_frames
           /\ \/ is_padding_id(IdAtPos)
              \/ /\ is_valid_frame_for_version(IdAtPos, t_version)
                 /\ FrameSizeGt(SizeAtPos, t_version, Len(t_buffer) - t_pos - 10)
        \/ /\ t_pc' = "frames" /\ t_pos' > t_pos /\ t_pos' <= Len(t_buffer)
           /\ ~is_padding_id(IdAtPos)
           /\ \/ /\ SizeFitsAtPos
                 /\ t_pos' = t_pos + 10 + FrameSize(SizeAtPos, t_version)
              \/ /\ is_valid_frame_for_version(IdAtPos, t_version)
                 /\ FrameSize(SizeAtPos, t_version) = 0
                 /\ t_pos' = t_pos + 10 /\ t_frames' = t_frames
              \/ /\ ~is_valid_frame_for_version(IdAtPos, t_version)
                 /\ ~SizeFitsAtPos
                 /\ t_pos' = t_pos + 1 /\ t_frames' = t_frames

\* C15: every iteration of the top-level frame loop either stops (padding id,
\* oversize frame with a valid id) or moves the scan position forward, by
\* 10 + size for a decoded or skipped frame, by 10 for a zero-size frame with an
\* allow-listed id, by 1 for an unknown id whose size cannot be used; the position
\* never exceeds the buffer length, so that the loop ends after at most as many
\* iterations as the buffer has bytes.
C15_LoopProgress ==
    /\ [][C15_Step]_vars
    /\ [](t_pc = "frames" => t_pos <= Len(t_buffer))

\* The loop has stepped over a zero-size frame with an allow-listed id and then
\* over one byte of an unknown id.
C15_Witness ==
    /\ t_pc = "frames" /\ t_last = "skip_byte"
    /\ t_pos = 11
    /\ Slice(t_buffer, 0, 8) = F_TIT2 \o <<0, 0, 0, 0>>

(***************************************************************************)
(* Properties of the frames with an id outside the allow-list.             *)
(***************************************************************************)
\* The id at the scan position is alphanumeric and not in the allow-list of the
\* version.
UnknownIdAtPos ==
    /\ \A i \in 1..4 : is_ascii_alphanumeric(IdAtPos[i])
    /\ IF t_version = 3 THEN IdAtPos \notin VALID_ID3V2_3_FRAME_IDS
       ELSE IdAtPos \notin VALID_ID3V2_4_FRAME_IDS

\* The declared size at the scan position does not exceed what is left of the
\* buffer after the header.
SizeWithinAtPos == ~FrameSizeGt(SizeAtPos, t_version, Len(t_buffer) - t_pos - 10)

C16_StepAnySize ==
    (InLoop /\ UnknownIdAtPos) =>
        /\ t_pc' = "frames" /\ t_frames' = t_frames
        /\ t_pos' = IF SizeWithinAtPos THEN t_pos + 10 + FrameSize(SizeAtPos, t_version)
                    ELSE t_pos + 1

\* C16 as stated: for an alphanumeric id outside the allow-list with declared
\* size s, zero included, the next position is pos + 10 + s when
\* s <= len - pos - 10 and pos + 1 otherwise; no frame is produced and the scan
\* goes on.
C16_UnknownIdSkippedBySize == [][C16_StepAnySize]_vars

C16_Step ==
    (InLoop /\ UnknownIdAtPos) =>
        /\ t_pc' = "frames" /\ t_frames' = t_frames
        /\ t_pos' = IF SizeWithinAtPos /\ FrameSize(SizeAtPos, t_version) > 0
                    THEN t_pos + 10 + FrameSize(SizeAtPos, t_version)
                    ELSE t_pos + 1

\* C16, amended: for an alphanumeric id outside the allow-list with declared
\* size s, the next position is pos + 10 + s when 0 < s <= len - pos - 10 and
\* pos + 1 otherwise (s = 0 included); no frame is produced and the scan goes on.
C16_UnknownIdSkippedByPositiveSize == [][C16_Step]_vars

\* The loop has stepped over a whole frame with an unknown id.
C16_Witness ==
    /\ t_pc = "frames" /\ t_last = "skip_frame"
    /\ t_pos = 11
    /\ Slice(t_buffer, 0, 8) = F_XXXX \o <<0, 0, 0, 1>>
    /\ t_frames = <<>>

(***************************************************************************)
(* Properties of the unsynchronization of the tag buffer.                  *)
(***************************************************************************)
\* The tag data as read from the file.
RawTag == Slice(t_file, 10, 10 + t_tag_size)

\* The decoder is past the unsynchronization step.
PastUnsync == t_show /\ t_pc \in {"ext", "frames"}

\* Every frame of the list lies at its offset in the buffer.
FramesOf(buffer) ==
    \A i \in 1..Len(t_frames) :
        /\ t_frames[i].offset + 10 + t_frames[i].size <= Len(buffer)
        /\ t_frames[i].id = Slice(buffer, t_frames[i].offset, t_frames[i].offset + 4)
        /\ t_frames[i].size =
               FrameSize(Slice(buffer, t_frames[i].offset + 4, t_frames[i].offset + 8), t_version)
        /\ t_frames[i].data = Slice(buffer, t_frames[i].offset + 10,
                                    t_frames[i].offset + 10 + t_frames[i].size)

\* C17: with flag 0x80 set the whole tag buffer is de-unsynchronized before the
\* extended header and the frames are read: the buffer of these steps is
\* remove_unsynchronization of the tag data, the scan position stays within it
\* and every frame id, size and payload is taken from it.
C17_UnsyncBeforeAnythingElse ==
    (PastUnsync /\ FlagSet(t_flags, 128)) =>
        /\ t_buffer = remove_unsynchronization(RawTag)
        /\ t_pc = "frames" =>
               /\ t_pos <= Len(remove_unsynchronization(RawTag))
               /\ FlagSet(t_flags, 64) =>
                      t_pos >= 4 + FrameSize(Slice(remove_unsynchronization(RawTag), 0, 4), t_version)
               /\ FramesOf(remove_unsynchronization(RawTag))

\* A frame was decoded from a buffer that the removal has made shorter.
C17_Witness ==
    /\ PastUnsync /\ FlagSet(t_flags, 128)
    /\ t_pc = "frames" /\ t_last = "decoded"
    /\ Len(t_buffer) < t_tag_size
    /\ \E i \in 1..Len(t_frames) :
           t_frames[i].data # Slice(RawTag, t_frames[i].offset + 10,
                                    t_frames[i].offset + 10 + t_frames[i].size)

(***************************************************************************)
(* Properties of the extended header.                                      *)
(***************************************************************************)
\* 4 + the extended-header size in the first 4 buffer bytes is at most n: the
\* size read as a plain big-endian number for version 3 and as a synchsafe one
\* for version 4.
ExtEndWithin(n) ==
    IF t_version = 3
    THEN /\ t_buffer[1] = 0
         /\ 4 + (t_buffer[2] * 65536 + t_buffer[3] * 256 + t_buffer[4]) <= n
    ELSE 4 + SynchsafeValue(Slice(t_buffer, 0, 4)) <= n

ExtEnd ==
    IF t_version = 3
    THEN 4 + (t_buffer[2] * 65536 + t_buffer[3] * 256 + t_buffer[4])
    ELSE 4 + SynchsafeValue(Slice(t_buffer, 0, 4))

C18_Step ==
    (t_pc = "ext" /\ FlagSet(t_flags, 64)) =>
        IF Len(t_buffer) >= 4 /\ ExtEndWithin(Len(t_buffer))
        THEN t_pc' = "frames" /\ t_pos' = ExtEnd
        ELSE t_pc' = "err" /\ t_frames' = <<>>

\* C18: with flag 0x40 set the extended-header size is read from the first 4
\* buffer bytes, plain big-endian for v2.3 and synchsafe for v2.4, and the frame
\* scan starts at 4 + size; with fewer than 4 buffer bytes or 4 + size beyond the
\* buffer the decoder fails and scans no frame.
C18_ExtendedHeader ==
    /\ [][C18_Step]_vars
    /\ [](t_pc = "err" => t_frames = <<>>)

\* The v2.4 decoder has read the size bytes 00 00 00 81 as 1 and starts its scan
\* at offset 5.
C18_Witness ==
    /\ t_version = 4 /\ FlagSet(t_flags, 64)
    /\ t_pc = "frames" /\ t_last = "none"
    /\ Slice(t_buffer, 0, 4) = <<0, 0, 0, 129>>
    /\ t_pos = 5

(***************************************************************************)
(* Properties of the embedded frame loop against the top-level one.        *)
(***************************************************************************)
\* The ids, offsets and sizes of a list of frames.
FrameKeys(frames) ==
    [i \in 1..Len(frames) |->
        [id |-> frames[i].id, offset |-> frames[i].offset, size |-> frames[i].size]]

\* The top-level loop has scanned the whole buffer from offset 0 and has stopped.
TopLevelLoopDone ==
    /\ t_show /\ ~FlagSet(t_flags, 64)
    /\ t_pc = "done" /\ t_last \in {"padding", "oversize", "end"}

\* C19: on the same bytes and version parse_embedded_frames yields the frames
\* (ids, offsets, sizes) that the top-level loop yields.
C19_EmbeddedSameAsTopLevel ==
    TopLevelLoopDone =>
        FrameKeys(parse_embedded_frames(t_buffer, t_version)) = FrameKeys(t_frames)

(***************************************************************************)
(* Properties of the layout of the boxes of one parse_boxes call.          *)
(***************************************************************************)
\* The first byte after the box, where its size is below 2^31.
BoxEnd(box) == box.offset + U64ToInt(box.size)

\* The offset at which the children of a container are parsed.
ChildrenStart(box) ==
    content_start_of(box.box_type, box.offset + box.header_size, BoxEnd(box))

RECURSIVE Tiles(_, _, _)
\* The boxes lie one after the other from start_offset to end_offset, each of 8
\* bytes or more, and so do the children of every container in its range.
Tiles(boxes, start_offset, end_offset) ==
    /\ start_offset <= end_offset
    /\ boxes = <<>> => start_offset = end_offset
    /\ boxes # <<>> =>
           /\ boxes[1].offset = start_offset
           /\ U64Fits(boxes[Len(boxes)].size) /\ BoxEnd(boxes[Len(boxes)]) = end_offset
    /\ \A i \in 1..Len(boxes) :
           /\ U64Fits(boxes[i].size)
           /\ U64ToInt(boxes[i].size) >= 8
           /\ i < Len(boxes) => boxes[i + 1].offset = BoxEnd(boxes[i])
           /\ boxes[i].is_container
                  => Tiles(boxes[i].children, ChildrenStart(boxes[i]), BoxEnd(boxes[i]))

\* C20: the boxes of a successful parse_boxes(start, end) tile the range with no
\* gap and no overlap: the first starts at start, each next one at the offset +
\* size of the one before, the last ends at end, and every size is 8 or more.
C20_BoxesTileRange == BoxOk => Tiles(b_result.boxes, 0, FileLen(b_file))

(***************************************************************************)
(* Properties of the nesting of CHAP and CTOC frames.                      *)
(***************************************************************************)
\* The frame was decoded as a chapter or a table of contents.
HasSubFrames(frame) == frame.content.kind \in {"Chapter", "TableOfContents"}

RECURSIVE NestedShorter(_, _)
\* Every frame of the list ends within limit bytes, and the sub-frames of a
\* chapter or table of contents are those of a proper suffix of the payload, in
\* which they lie in turn.
NestedShorter(frames, limit) ==
    \A i \in 1..Len(frames) :
        /\ frames[i].offset + 10 + Len(frames[i].data) <= limit
        /\ (HasSubFrames(frames[i]) /\ frames[i].content.sub_frames # <<>>) =>
               \E k \in 1..(Len(frames[i].data) - 1) :
                   /\ frames[i].content.sub_frames =
                          parse_embedded_frames_from(
                              Slice(frames[i].data, k, Len(frames[i].data)), 0, t_version)
                   /\ NestedShorter(frames[i].content.sub_frames, Len(frames[i].data) - k)

RECURSIVE NestingDepth(_)
\* The number of levels of chapters and tables of contents in the list.
NestingDepth(frames) ==
    MaxOf({0} \cup { 1 + NestingDepth(frames[i].content.sub_frames) :
                       i \in { j \in 1..Len(frames) : HasSubFrames(frames[j]) } })

\* C21: the slice handed to a nested parse_embedded_frames call is strictly
\* shorter than the payload of the enclosing frame and every embedded frame's
\* payload is strictly shorter than that slice, so the nesting depth is at most
\* the payload length and the recursion ends.
C21_NestedSlicesShrink ==
    /\ NestedShorter(t_frames, Len(t_buffer))
    /\ \A i \in 1..Len(t_frames) : NestingDepth(<<t_frames[i]>>) <= Len(t_frames[i].data)

\* A table of contents with a chapter with a text frame was decoded.
C21_Witness ==
    /\ t_frames # <<>>
    /\ t_frames[1].id = <<67, 84, 79, 67>>
    /\ NestingDepth(t_frames) = 2
    /\ t_frames[1].content.sub_frames[1].content.sub_frames[1].id = F_TIT2

(***************************************************************************)
(* Properties of the payload of the leaves.                                *)
(***************************************************************************)
\* size - header_size of the box lies in 1..1048576.
BodyWithinCap(box) ==
    /\ U64Fits(box.size)
    /\ U64ToInt(box.size) - box.header_size >= 1
    /\ U64ToInt(box.size) - box.header_size <= 1048576

\* The payload stored in the leaf is empty or the whole body, it is there exactly
\* for a body of 1 to 1048576 bytes, and typed content needs a payload.
LeafPayloadOk(box) ==
    /\ box.data.len = 0 \/ (U64Fits(box.size) /\ box.data.len = U64ToInt(box.size) - box.header_size)
    /\ box.data.len > 0 <=> BodyWithinCap(box)
    /\ box.data.len > 0 => box.data.off = box.offset + box.header_size
    /\ box.content.some => box.data.len > 0
    /\ box.children = <<>>

RECURSIVE AllLeavesOk(_)
AllLeavesOk(boxes) ==
    \A i \in 1..Len(boxes) :
        IF boxes[i].is_container THEN AllLeavesOk(boxes[i].children)
        ELSE LeafPayloadOk(boxes[i])

\* C22: the payload stored in a leaf of a parsed tree is empty or exactly
\* size - header_size bytes long, non-empty exactly when
\* 1 <= size - header_size <= 1048576; a leaf with a larger body keeps offset and
\* size with an empty payload; typed content is present only with a payload.
C22_LeafPayload == BoxOk => AllLeavesOk(b_result.boxes)

\* An mdat leaf of 1048577 body bytes was parsed: offset and size kept, no payload.
C22_Witness ==
    /\ BoxOk
    /\ Len(b_result.boxes) = 1
    /\ b_result.boxes[1].box_type = T_mdat
    /\ b_result.boxes[1].offset = 0
    /\ b_result.boxes[1].size = U64(8 + 1048577)
    /\ b_result.boxes[1].data.len = 0

(***************************************************************************)
(* Properties of a failed iTunes metadata decode.                          *)
(***************************************************************************)
\* The call on the children of an iTunes metadata box is about to return.
ItunesReturn ==
    /\ b_pc = "run" /\ Len(b_stack) >= 2
    /\ b_stack[Len(b_stack)].current_offset >= b_stack[Len(b_stack)].end_offset
    /\ is_itunes_metadata_box(b_stack[Len(b_stack) - 1].pending[1].box_type)

\* The children the call returns, and the first "data" box among them.
ReturnedChildren == b_stack[Len(b_stack)].boxes

FirstDataChild == ReturnedChildren[FirstIndex(DataChildren(ReturnedChildren))]

\* The type tag and the number of content bytes (after the 8 bytes of version,
\* flags and reserved) of the first "data" child.
DataTypeTag == FileByte(b_file, FirstDataChild.data.off + 3)

DataContentLen == FirstDataChild.data.len - 8

\* The first "data" child has a payload of fewer than 8 bytes, or an integer type
\* tag (0x15, 0x16) with a content length other than 1, 2, 4 or 8.
ShortOrBadInteger ==
    /\ DataChildren(ReturnedChildren) # {}
    /\ FirstDataChild.data.len > 0
    /\ \/ FirstDataChild.data.len < 8
       \/ DataTypeTag \in {21, 22} /\ DataContentLen \notin {1, 2, 4, 8}

\* An unsigned-integer tag on a trkn or disk box with 6 or more content bytes:
\* decoded as a track or disk number.
IsTrackOrDiskNumber ==
    /\ b_stack[Len(b_stack) - 1].pending[1].box_type \in {T_trkn, T_disk}
    /\ FirstDataChild.data.len >= 8
    /\ DataTypeTag = 22
    /\ DataContentLen >= 6

\* The container goes into its parent's list with its children and without
\* iTunes content, and the parent's loop goes on after it.
ContainerKeptWithoutContent ==
    /\ b_pc' = "run"
    /\ Len(b_stack') = Len(b_stack) - 1
    /\ b_stack'[Len(b_stack')].boxes =
           Append(b_stack[Len(b_stack) - 1].boxes,
                  [b_stack[Len(b_stack) - 1].pending[1] EXCEPT !.children = ReturnedChildren])
    /\ ~b_stack'[Len(b_stack')].boxes[Len(b_stack'[Len(b_stack')].boxes)].itunes_content.some
    /\ b_stack'[Len(b_stack')].current_offset = b_stack[Len(b_stack) - 1].pending_next

C23_StepAnyInteger == (ItunesReturn /\ ShortOrBadInteger) => ContainerKeptWithoutContent

\* C23 as stated: a data payload shorter than 8 bytes, or an integer type tag
\* with a content length other than 1, 2, 4 or 8, leaves the container and its
\* children in the tree with iTunes content absent, and the parse goes on.
C23_DecodeFailureIsSwallowed == [][C23_StepAnyInteger]_vars

C23_Step ==
    (ItunesReturn /\ ShortOrBadInteger /\ ~IsTrackOrDiskNumber) => ContainerKeptWithoutContent

\* C23, amended: the same, except that an unsigned-integer tag (0x16) on a trkn
\* or disk box with 6 or more content bytes is no failure.
C23_DecodeFailureIsSwallowedExceptNumbers == [][C23_Step]_vars

\* The parse has succeeded on an ilst with a tmpo box whose integer has 3 bytes
\* and a (c)nam box after it: tmpo is in the tree with its data child and without
\* iTunes content, (c)nam has its text.
C23_Witness ==
    /\ BoxOk
    /\ \E i \in 1..Len(b_result.boxes) :
           /\ b_result.boxes[i].box_type = T_ilst
           /\ Len(b_result.boxes[i].children) = 2
           /\ b_result.boxes[i].children[1].box_type = T_tmpo
           /\ Len(b_result.boxes[i].children[1].children) = 1
           /\ b_result.boxes[i].children[1].children[1].data.len = 11
           /\ FileByte(b_file, b_result.boxes[i].children[1].children[1].data.off + 3) = 21
           /\ ~b_result.boxes[i].children[1].itunes_content.some
           /\ b_result.boxes[i].children[2].box_type = T_nam
           /\ b_result.boxes[i].children[2].itunes_content.some

(***************************************************************************)
(* Properties of the stsd decoder.                                         *)
(***************************************************************************)
\* The decoder has run on the payload.
StsdDone == h_kind = "stsd" /\ h_res.status # "none"

\* C24: the stsd decoder succeeds for every payload of 8 bytes or more, and its
\* list has at most min(entry_count, floor((payload length - 8) / 8)) entries,
\* a malformed entry ending the list.
C24_StsdEntriesBounded ==
    (StsdDone /\ Len(h_data) >= 8) =>
        /\ h_res.status = "ok"
        /\ Len(h_res.entries) <= Min(u32_from_be_bytes(Slice(h_data, 4, 8)),
                                     (Len(h_data) - 8) \div 8)

(***************************************************************************)
(* Properties of the data reference box.                                   *)
(***************************************************************************)
RECURSIVE DrefDescended(_)
\* Every 'dref' box of the tree with 8 or more bytes after its header is a
\* container, and where bytes follow the 8 it skips its children start there.
DrefDescended(boxes) ==
    \A i \in 1..Len(boxes) :
        /\ (/\ boxes[i].box_type = T_dref
            /\ U64Fits(boxes[i].size)
            /\ U64ToInt(boxes[i].size) - boxes[i].header_size >= 8)
               => /\ boxes[i].is_container
                  /\ BoxEnd(boxes[i]) > boxes[i].offset + boxes[i].header_size + 8
                         => /\ boxes[i].children # <<>>
                            /\ boxes[i].children[1].offset
                                   = boxes[i].offset + boxes[i].header_size + 8
        /\ DrefDescended(boxes[i].children)

\* C25: a dref box is descended into as a container: when its body has 8 bytes
\* or more, its data-entry boxes are parsed from offset + header_size + 8 up to
\* offset + size and are its children in the tree.
C25_DrefIsContainer == BoxOk => DrefDescended(b_result.boxes)


(***************************************************************************)
(* Properties of the offset at which a container's children are parsed.    *)
(***************************************************************************)
\* The bytes a container skips between its header and its first child: the 4
\* version and flags bytes of a 'meta' box that has them, none otherwise.
SkippedBeforeChildren(box) ==
    IF box.box_type = T_meta /\ U64ToInt(box.size) - box.header_size >= 4 THEN 4 ELSE 0

RECURSIVE ChildrenStartAfterSkip(_)
\* In every container of the tree whose end is within the file, the children
\* start right after the header and the skipped bytes and start before the
\* container's end; a container without children has no byte left for one.
ChildrenStartAfterSkip(boxes) ==
    \A i \in 1..Len(boxes) :
        (boxes[i].is_container /\ U64Fits(boxes[i].size))
            => /\ boxes[i].children # <<>>
                      => boxes[i].children[1].offset
                             = boxes[i].offset + boxes[i].header_size
                                   + SkippedBeforeChildren(boxes[i])
               /\ boxes[i].children = <<>>
                      => boxes[i].offset + boxes[i].header_size
                             + SkippedBeforeChildren(boxes[i]) >= BoxEnd(boxes[i])
               /\ \A j \in 1..Len(boxes[i].children) :
                      /\ boxes[i].children[j].offset
                             >= boxes[i].offset + boxes[i].header_size
                                    + SkippedBeforeChildren(boxes[i])
                      /\ boxes[i].children[j].offset < BoxEnd(boxes[i])
               /\ ChildrenStartAfterSkip(boxes[i].children)

\* C26: the children of a meta container with 4 or more bytes after its header
\* are parsed from offset + header_size + 4 up to offset + size, so that the
\* version and flags bytes are never read as a box header; the children of
\* every other container are parsed from offset + header_size.
C26_MetaSkipsVersionFlags == BoxOk => ChildrenStartAfterSkip(b_result.boxes)

\* A meta box with children after its 4 version and flags bytes, next to a
\* container of another type with children.
C26_Witness ==
    /\ BoxOk
    /\ \E i \in 1..Len(b_result.boxes) :
           /\ b_result.boxes[i].box_type = T_meta
           /\ b_result.boxes[i].children # <<>>
           /\ b_result.boxes[i].children[1].offset = b_result.boxes[i].offset + 12
    /\ \E i \in 1..Len(b_result.boxes) :
           /\ b_result.boxes[i].box_type = T_moov
           /\ b_result.boxes[i].children # <<>>
           /\ b_result.boxes[i].children[1].offset = b_result.boxes[i].offset + 8


(***************************************************************************)
(* Properties of the primary text of a text frame.                         *)
(***************************************************************************)
\* TextFrame::parse has returned Ok for the payload.
TextDecoded == h_kind = "text" /\ h_res.status = "ok"

\* The bytes after the encoding byte.
TextData == Slice(h_data, 1, Len(h_data))

\* The offsets in the text data at which a terminator of the encoding stands:
\* every zero byte, or every zero 16-bit unit at an even offset.
TerminatorsOf(data, encoding) ==
    { p \in 0..Len(data) :
        /\ p + get_terminator_length(encoding) <= Len(data)
        /\ p % get_terminator_length(encoding) = 0
        /\ is_null_terminator(Slice(data, p, p + get_terminator_length(encoding)), encoding) }

\* The end of the segment that starts at a: the next terminator or the end.
SegmentEnd(data, encoding, a) ==
    IF \E t \in TerminatorsOf(data, encoding) : t >= a
    THEN CHOOSE t \in TerminatorsOf(data, encoding) :
             t >= a /\ \A u \in TerminatorsOf(data, encoding) : u >= a => t <= u
    ELSE Len(data)

\* The offsets at which a string of the null-separated list starts.
SegmentStarts(data, encoding) ==
    {0} \cup { t + get_terminator_length(encoding) : t \in TerminatorsOf(data, encoding) }

\* The string of the list that starts at a, decoded on its own.
SegmentText(data, encoding, a) ==
    decode_text_with_encoding_simple(Slice(data, a, SegmentEnd(data, encoding, a)), encoding)

\* C27 as stated: the primary text of every payload that decodes is the decoding
\* of the bytes between the encoding byte and the first terminator of the
\* encoding, or the end of the payload, also when the payload begins with a
\* terminator.
C27_PrimaryIsFirstString ==
    TextDecoded => Ok(h_res.val.text) = SegmentText(TextData, h_res.val.encoding, 0)

\* C27, amended: the primary text of every payload that decodes is the first
\* string of the null-separated list that is not empty once decoded, the strings
\* before it being empty, and is empty when every string of the list is; the
\* ISO-8859-1 payload "Hello" has the primary text "Hello".
C27_PrimaryIsFirstNonEmptyString ==
    TextDecoded =>
        /\ \/ /\ h_res.val.text = <<>>
              /\ \A a \in SegmentStarts(TextData, h_res.val.encoding) :
                     SegmentText(TextData, h_res.val.encoding, a) = Ok(<<>>)
           \/ /\ h_res.val.text # <<>>
              /\ \E a \in SegmentStarts(TextData, h_res.val.encoding) :
                     /\ SegmentText(TextData, h_res.val.encoding, a) = Ok(h_res.val.text)
                     /\ \A b \in SegmentStarts(TextData, h_res.val.encoding) :
                            b < a => SegmentText(TextData, h_res.val.encoding, b) = Ok(<<>>)
        /\ h_data = <<0, 72, 101, 108, 108, 111>> => h_res.val.text = <<72, 101, 108, 108, 111>>

\* A payload that begins with a terminator and has a string after it has decoded.
C27_Witness ==
    /\ TextDecoded
    /\ 0 \in TerminatorsOf(TextData, h_res.val.encoding)
    /\ h_res.val.text # <<>>


(***************************************************************************)
(* Properties of the three probes on one header.                           *)
(***************************************************************************)
\* build_for_file has read the 12-byte header and chosen a decoder.
Built == d_pc = "built"

\* The header build_for_file hands to the probes.
BuiltHeader == ReadExact(d_file, 0, 12)

\* The format-specific probes that accept the header.
Accepting(header) ==
    { d \in {"ID3v2.3", "ID3v2.4", "ISOBMFF"} : can_handle(d, header) }

\* C28 as stated: at most one of the three probes accepts a 12-byte header, and
\* the decoder chosen does not depend on the order the probes are tried in.
C28_ProbesExclusive ==
    Built => /\ Cardinality(Accepting(BuiltHeader)) <= 1
             /\ first_match(dissectors_reversed, BuiltHeader, 1) = d_chosen

\* C28, amended: the ID3v2.3 and the ID3v2.4 probe never both accept a 12-byte
\* header, and the ISOBMFF probe accepts together with one of them only when the
\* header has 'ftyp' in bytes 4..7 and begins with "ID3" and the major version 3
\* or 4 or with the MPEG sync pattern; the dispatcher then chooses the ID3v2
\* decoder, whose probe is tried first.  With one probe accepting or none the
\* choice does not depend on the order.
C28_ProbesExclusiveButFtyp ==
    Built =>
        \/ /\ Cardinality(Accepting(BuiltHeader)) <= 1
           /\ first_match(dissectors_reversed, BuiltHeader, 1) = d_chosen
        \/ /\ Accepting(BuiltHeader) = {"ID3v2.3", "ISOBMFF"}
           /\ Slice(BuiltHeader, 4, 8) = <<102, 116, 121, 112>>
           /\ \/ Slice(BuiltHeader, 0, 4) = <<73, 68, 51, 3>>
              \/ /\ At(BuiltHeader, 0) = 255 /\ At(BuiltHeader, 1) >= 224
           /\ d_chosen = "ID3v2.3"
        \/ /\ Accepting(BuiltHeader) = {"ID3v2.4", "ISOBMFF"}
           /\ Slice(BuiltHeader, 4, 8) = <<102, 116, 121, 112>>
           /\ Slice(BuiltHeader, 0, 4) = <<73, 68, 51, 4>>
           /\ d_chosen = "ID3v2.4"

\* A header with the MPEG sync pattern, 'ftyp' and a listed brand was probed.
C28_Witness ==
    /\ Built
    /\ Accepting(BuiltHeader) = {"ID3v2.3", "ISOBMFF"}
    /\ At(BuiltHeader, 0) = 255
    /\ d_chosen = "ID3v2.3"


(***************************************************************************)
(* Properties of the frame parser called by the top-level frame loop.      *)
(***************************************************************************)
\* C29: whenever the top-level frame loop calls parse_id3v2_3_frame or
\* parse_id3v2_4_frame the call returns Some(frame): the checks the loop made
\* before the call imply every check of the parser, so that the loop's branch
\* for a failed parse is never taken and every call adds the frame at the
\* loop's position to the frames.
C29_ParserNeverFails ==
    /\ t_last # "parse_none"
    /\ t_last = "decoded"
           => /\ t_frames # <<>>
              /\ t_pos = t_frames[Len(t_frames)].offset + 10 + t_frames[Len(t_frames)].size

\* The loop has called the parser for a second frame, one that ends exactly at
\* the end of the buffer.
C29_Witness ==
    /\ t_last = "decoded"
    /\ Len(t_frames) >= 2
    /\ t_pos = Len(t_buffer)


(***************************************************************************)
(* Properties of the file cursor between the probe and the decoder.        *)
(***************************************************************************)
\* What build_for_file does to the file when it succeeds.
ProbeOps == <<SeekOp(0), ReadOp(0, 12), SeekOp(0)>>

\* C30: after the dispatcher has probed a file successfully the cursor is at
\* offset 0 when the chosen decoder starts, whichever decoder it is; the probe
\* has done nothing to the file but seek to 0, read the 12 header bytes and seek
\* back, and nothing is printed or changed; and the first read of the decoder
\* that starts is at the absolute position it has just sought to itself.
C30_CursorRestored ==
    /\ [](Built => /\ d_cursor = 0
                   /\ d_log = ProbeOps
                   /\ d_out = <<>>)
    /\ [](d_pc = "dissecting"
              => /\ Len(d_log) >= 5
                 /\ Slice(d_log, 0, 3) = ProbeOps
                 /\ d_log[4].op = "seek"
                 /\ d_log[5].op = "read" /\ d_log[5].pos = d_log[4].pos)
    /\ [][d_file' = d_file]_vars

\* The box decoder has started on a probed file: it has sought to 0 itself and
\* read the first box header there.
C30_Witness ==
    /\ d_pc = "dissecting"
    /\ d_chosen = "ISOBMFF"
    /\ d_log = ProbeOps \o <<SeekOp(0), ReadOp(0, 8)>>
    /\ d_cursor = 8


====
